---- MODULE Spec2Model ----
(***************************************************************************)
(* Verification model of the email summarizer:                             *)
(*   - utils/error_handling.py   retry_with_backoff, calculate_delay       *)
(*   - storage/yaml_writer.py    YAMLWriter (daily summary records)        *)
(*   - config/search_configs.py  SearchConfigManager (configuration store) *)
(* Each component has its own specification (SpecRetry, SpecYaml,          *)
(* SpecStore); the variables of the other components stay unchanged.       *)
(***************************************************************************)
EXTENDS Integers, Sequences, FiniteSets, TLC

VARIABLES
    \* ---- retry wrapper (utils/error_handling.py) ----
    rcfg,       \* the RetryConfig the decorator was built with
    rpc,        \* position of wrapper(): "running", "returned", "raised"
    attempt,    \* loop variable of `for attempt in range(max_attempts)`
    calls,      \* outcomes of the calls of func made so far, in order
    rout,       \* what wrapper() returned or raised
    slept,      \* the delays passed to time.sleep, in order
    \* ---- daily record writer (storage/yaml_writer.py) ----
    files,      \* date -> content of <output_directory>/<date>.yaml, or NoFile
    ylast,      \* the last writer operation and what it returned or raised
    \* ---- search configuration store (config/search_configs.py) ----
    cfile,      \* content of the JSON configuration file
    backups,    \* kinds of backup copies made next to the file
    manager,    \* whether a SearchConfigManager has been constructed
    slast,      \* the last store operation and what it returned or raised
    \* ---- transcript generator (summarization/transcript_generator.py) ----
    tfile,      \* content of the day's YAML file read by the transcript generator
    tsummarizer,\* whether the generator has an EmailSummarizer (AI service)
    tai,        \* outcome of the AI call of the last generate_transcript
    tout,       \* what the last generate_transcript returned or raised
    \* ---- batch summarization (summarization/summarizer.py) ----
    bemails,    \* the EmailData list passed to batch_summarize_emails
    bpc,        \* position of batch_summarize_emails: "idle", "running", "returned", "raised"
    bi,         \* loop variable i of batch_summarize_emails
    bcalls,     \* outcome of the AI call made for each email so far, in order
    bsummaries, \* the list summaries built so far
    \* ---- bulk fetch (gmail_email/fetcher.py) ----
    fids,       \* message_ids listed for the query of fetch_emails_with_query
    fpc,        \* position of fetch_emails_with_query: "idle", "running", "returned", "raised"
    fi,         \* number of message ids the loop has gone through
    fcalls,     \* how get_email_content ended for each id so far, in order
    femails,    \* the list emails built so far
    fout,       \* the exception fetch_emails_with_query raised, if any
    \* ---- main pipeline (main.py) ----
    pargs,      \* command-line arguments and settings of the run of process_emails
    ppc,        \* position of process_emails: "idle", "init", "fetch", "written", "exited"
    pquery,     \* the search query determine_search_query returned
    plog,       \* what determine_search_query found and reported
    ptranscript,\* how the transcript stage of the run ended
    pexit,      \* the exit code returned by process_emails, once it has returned
    \* ---- file permissions ----
    modes,      \* the permission bits of the token, search-configuration, summary and transcript file
    umask,      \* the process's file-creation mask
    wlast,      \* the last write: which file, and whether it returned
    \* ---- query validator dates ----
    dstr,       \* the value given to an after: or before: operator, as its characters
    dlast,      \* the operator validated last, and whether the validator accepted it
    \* ---- two writers of one day ----
    lfile,      \* the day's summary file that two pipeline runs share
    lstart,     \* that file before either run wrote
    lbatch,     \* the summaries each run has to store
    lpc,        \* where each run is in write_daily_summary
    lread,      \* the record each run loaded from the file
    \* ---- AI provider call ----
    aprovider,  \* config.ai_provider of the summarizer making the call
    aresponses, \* what the provider answered to each request of the call
    \* ---- message id listing ----
    gmax,       \* max_results of the bulk fetch
    gpc,        \* listing, returned or raised
    gouter,     \* attempt of the wrapper of fetch_emails_with_query, from 0
    ginner,     \* attempt of the wrapper of _get_message_ids, from 0
    gn,         \* len(message_ids) in the current run of _get_message_ids
    gtoken,     \* next_page_token in that run
    gcalls,     \* the list calls of that run
    gtotal,     \* how many list calls the bulk fetch has made
    gallretry,  \* whether every one of them failed with a retryable error
    gout,       \* how many ids were returned, or the error raised
    \* ---- authentication ----
    kstart,     \* the token file authenticate found: what it holds and its mode
    kfile,      \* what the token file holds now
    kargs,      \* headless, and whether the credentials file is valid
    kpc,        \* load, check, persist, returned or raised
    kcreds,     \* creds
    ksteps,     \* which of refresh, authorize and persist have run
    kout        \* the exception authenticate raised

retryVars == <<rcfg, rpc, attempt, calls, rout, slept>>
yamlVars == <<files, ylast>>
storeVars == <<cfile, backups, manager, slast>>
transcriptVars == <<tfile, tsummarizer, tai, tout>>
batchVars == <<bemails, bpc, bi, bcalls, bsummaries>>
fetchVars == <<fids, fpc, fi, fcalls, femails, fout>>
runVars == <<pargs, ppc, pquery, plog, ptranscript, pexit>>
permVars == <<modes, umask, wlast>>
dateVars == <<dstr, dlast>>
raceVars == <<lfile, lstart, lbatch, lpc, lread>>
providerVars == <<aprovider, aresponses>>
idsVars == <<gmax, gpc, gouter, ginner, gn, gtoken, gcalls, gtotal, gallretry, gout>>
authVars == <<kstart, kfile, kargs, kpc, kcreds, ksteps, kout>>
vars == <<rcfg, rpc, attempt, calls, rout, slept, files, ylast, cfile, backups, manager, slast, tfile, tsummarizer, tai, tout, bemails, bpc, bi, bcalls, bsummaries, fids, fpc, fi, fcalls, femails, fout, pargs, ppc, pquery, plog, ptranscript, pexit, modes, umask, wlast, dstr, dlast, lfile, lstart, lbatch, lpc, lread, aprovider, aresponses, gmax, gpc, gouter, ginner, gn, gtoken, gcalls, gtotal, gallretry, gout, kstart, kfile, kargs, kpc, kcreds, ksteps, kout>>

Min(a, b) == IF a <= b THEN a ELSE b
Max(a, b) == IF a >= b THEN a ELSE b

RECURSIVE Pow(_, _)
Pow(b, e) == IF e = 0 THEN 1 ELSE b * Pow(b, e - 1)

(***************************************************************************)
(* Retry wrapper.  Delays are in tenths of a second.                       *)
(***************************************************************************)

\* bounds of the inputs
MaxAttemptsBound == 3
BaseDelays == {10, 20}
MaxDelays == {20, 30}
\* retry_after of an exception that has none (None)
NoHint == 0 - 1
RetryAfterHints == {NoHint, 0, 7, 50}
Results == {"r1", "r2"}

\* RetryConfig defaults
exponential_base == 2
backoff_factor == 1

RetryConfigs ==
    [max_attempts : 1..MaxAttemptsBound, base_delay : BaseDelays,
     max_delay : MaxDelays, jitter : BOOLEAN]

\* the exception classes func may raise
retryable_exceptions == {"RetryableError"}
non_retryable_exceptions == {"NonRetryableError"}

\* what one call of func does: return a value or raise an exception
Outcomes ==
    [kind : {"ok"}, value : Results]
    \cup [kind : {"raise"}, exc : {"RetryableError"}, retry_after : RetryAfterHints]
    \cup [kind : {"raise"}, exc : {"NonRetryableError", "ValueError"}, retry_after : {NoHint}]

\* mutant: the backoff is not capped
BackoffDelay_Uncapped(att, config) ==
    config.base_delay * Pow(exponential_base, att) * backoff_factor

\* calculate_delay before jitter: exponential backoff capped at max_delay
BackoffDelay(att, config) ==
    Min(config.base_delay * Pow(exponential_base, att) * backoff_factor, config.max_delay)

\* calculate_delay: the set of values it can return (jitter is random)
calculate_delay(att, config) ==
    LET delay == BackoffDelay(att, config)
        jitter_range == delay \div 10
    IN  IF config.jitter
        THEN {Max(0, delay + j) : j \in (0 - jitter_range)..jitter_range}
        ELSE {Max(0, delay)}

\* the delay the wrapper sleeps after a retryable error e at attempt att
RetryDelays(e, att, config) ==
    IF e.retry_after # NoHint /\ e.retry_after # 0
    THEN {e.retry_after}
    ELSE calculate_delay(att, config)

\* func returns: wrapper returns that value
AttemptReturns(o) ==
    /\ o.kind = "ok"
    /\ rpc' = "returned"
    /\ rout' = o
    /\ UNCHANGED <<attempt, slept>>

\* except non_retryable_exceptions: re-raise at once
AttemptNonRetryable(o) ==
    /\ o.kind = "raise"
    /\ o.exc \in non_retryable_exceptions
    /\ rpc' = "raised"
    /\ rout' = o
    /\ UNCHANGED <<attempt, slept>>

\* mutant: the last-attempt test is off by one
AttemptRetryableLast_OffByOne(o) ==
    /\ o.kind = "raise"
    /\ o.exc \notin non_retryable_exceptions
    /\ o.exc \in retryable_exceptions
    /\ attempt = rcfg.max_attempts - 2
    /\ rpc' = "raised"
    /\ rout' = o
    /\ UNCHANGED <<attempt, slept>>

\* except retryable_exceptions on the last attempt: re-raise
AttemptRetryableLast(o) ==
    /\ o.kind = "raise"
    /\ o.exc \notin non_retryable_exceptions
    /\ o.exc \in retryable_exceptions
    /\ attempt = rcfg.max_attempts - 1
    /\ rpc' = "raised"
    /\ rout' = o
    /\ UNCHANGED <<attempt, slept>>

\* except retryable_exceptions before the last attempt: sleep, next attempt
AttemptRetryableSleep(o) ==
    /\ o.kind = "raise"
    /\ o.exc \notin non_retryable_exceptions
    /\ o.exc \in retryable_exceptions
    /\ attempt # rcfg.max_attempts - 1
    /\ \E delay \in RetryDelays(o, attempt, rcfg) : slept' = Append(slept, delay)
    /\ attempt' = attempt + 1
    /\ UNCHANGED <<rpc, rout>>

\* mutant: an unclassified exception is retried like a retryable one
AttemptUnexpected_Retried(o) ==
    /\ o.kind = "raise"
    /\ o.exc \notin non_retryable_exceptions
    /\ o.exc \notin retryable_exceptions
    /\ IF attempt = rcfg.max_attempts - 1
       THEN rpc' = "raised" /\ rout' = o /\ UNCHANGED <<attempt, slept>>
       ELSE /\ \E delay \in calculate_delay(attempt, rcfg) : slept' = Append(slept, delay)
            /\ attempt' = attempt + 1
            /\ UNCHANGED <<rpc, rout>>

\* except Exception: unexpected, re-raise at once
AttemptUnexpected(o) ==
    /\ o.kind = "raise"
    /\ o.exc \notin non_retryable_exceptions
    /\ o.exc \notin retryable_exceptions
    /\ rpc' = "raised"
    /\ rout' = o
    /\ UNCHANGED <<attempt, slept>>

\* one iteration of the retry loop: call func, handle what it does
RetryAttempt ==
    /\ rpc = "running"
    /\ attempt < rcfg.max_attempts
    /\ \E o \in Outcomes :
        /\ calls' = Append(calls, o)
        /\ \/ AttemptReturns(o)
           \/ AttemptNonRetryable(o)
           \/ AttemptRetryableLast(o)
           \/ AttemptRetryableSleep(o)
           \/ AttemptUnexpected(o)
    /\ UNCHANGED rcfg

RetryNext == RetryAttempt /\ UNCHANGED <<yamlVars, storeVars, transcriptVars, batchVars, fetchVars, runVars, permVars, dateVars, raceVars, providerVars, idsVars, authVars>>

(***************************************************************************)
(* Daily record writer (YAMLWriter).  A stored record is the dictionary    *)
(* the writer dumps; a missing key is a missing field of the record.       *)
(***************************************************************************)

\* bounds of the inputs
MaxBatch == 3        \* longest list of summaries passed to one write
MaxStored == 5       \* longest emails list kept in one record

ValidDates == {"2024-01-15"}
Dates == ValidDates \cup {"15-01-2024"}
Times == {"t1", "t2"}      \* values of datetime.now().isoformat()
NoFile == [absent |-> TRUE]
EmptyStatus == "No important unread emails found"

\* the EmailSummary objects handed to the writer
Summaries ==
    { [subject |-> "s1", priority |-> "High", action_items |-> <<"a1">>],
      [subject |-> "s2", priority |-> "Low", action_items |-> <<>>] }

RECURSIVE SeqsUpTo(_, _)
SeqsUpTo(S, n) ==
    IF n = 0 THEN {<<>>}
    ELSE LET shorter == SeqsUpTo(S, n - 1)
         IN  shorter \cup {Append(q, x) : q \in {r \in shorter : Len(r) = n - 1}, x \in S}

Batches == SeqsUpTo(Summaries, MaxBatch)

\* datetime.strptime(date, "%Y-%m-%d") succeeds
IsValidDate(date) == date \in ValidDates

_summary_to_dict(summary) ==
    [subject |-> summary.subject, priority |-> summary.priority,
     action_items |-> summary.action_items]

ToDicts(summaries) == [i \in 1..Len(summaries) |-> _summary_to_dict(summaries[i])]

Has(data, key) == key \in DOMAIN data

\* dict assignment data[key] = value
SetKey(data, key, value) ==
    [k \in DOMAIN data \cup {key} |-> IF k = key THEN value ELSE data[k]]

\* _load_existing_yaml: missing emails / email_count are synthesized
_load_existing_yaml(data) ==
    LET d1 == IF Has(data, "emails") THEN data ELSE SetKey(data, "emails", <<>>)
        d2 == IF Has(d1, "email_count") THEN d1
              ELSE SetKey(d1, "email_count", Len(d1["emails"]))
    IN  d2

\* the record _create_new_summary_file writes
NewSummaryData(summaries, date, now) ==
    [date |-> date, processed_at |-> now, email_count |-> Len(summaries),
     emails |-> ToDicts(summaries)]

\* mutant: the new batch replaces the stored emails
AppendedData_Replace(existing, summaries, now) ==
    LET existing_data == _load_existing_yaml(existing)
        emails == ToDicts(summaries)
        d1 == SetKey(existing_data, "emails", emails)
        d2 == SetKey(d1, "email_count", Len(emails))
    IN  SetKey(d2, "last_updated", now)

\* mutant: email_count is not recomputed after the append
AppendedData_StaleCount(existing, summaries, now) ==
    LET existing_data == _load_existing_yaml(existing)
        emails == existing_data["emails"] \o ToDicts(summaries)
        d1 == SetKey(existing_data, "emails", emails)
    IN  SetKey(d1, "last_updated", now)

\* the record append_to_existing_summary writes
AppendedData(existing, summaries, now) ==
    LET existing_data == _load_existing_yaml(existing)
        emails == existing_data["emails"] \o ToDicts(summaries)
        d1 == SetKey(existing_data, "emails", emails)
        d2 == SetKey(d1, "email_count", Len(emails))
    IN  SetKey(d2, "last_updated", now)

\* mutant: the empty record lists the status line as an entry
EmptyData_Placeholder(date, now) ==
    [date |-> date, processed_at |-> now, email_count |-> 1,
     status |-> EmptyStatus,
     emails |-> <<[subject |-> EmptyStatus, priority |-> "Low", action_items |-> <<>>]>>]

\* the record create_empty_summary_file writes
EmptyData(date, now) ==
    [date |-> date, processed_at |-> now, email_count |-> 0,
     status |-> EmptyStatus, emails |-> <<>>]

\* mutant: create-empty does not look at the existing record
KeepsExisting_Never(existing) == FALSE

\* whether create_empty_summary_file returns early, leaving the file alone
KeepsExisting(existing) ==
    /\ existing # NoFile
    /\ _load_existing_yaml(existing)["email_count"] > 0

PathOf(date) == [kind |-> "path", date |-> date]
CountBefore(date) ==
    IF files[date] = NoFile THEN 0 - 1 ELSE _load_existing_yaml(files[date])["email_count"]

\* the record of a writer operation: its arguments, the email_count it found
\* (-1 for no file), what it returned or raised, and whether it repeats a
\* create-empty call for the same date that found no emails
YLast(op, date, n, ret) ==
    [op |-> op, date |-> date, n |-> n, prev |-> CountBefore(date), ret |-> ret,
     repeat |-> (op = "create_empty" /\ ylast.op = "create_empty" /\ ylast.date = date
                   /\ ylast.prev <= 0)]

\* no operation yet
YLastNone ==
    [op |-> "none", date |-> "", n |-> 0, prev |-> 0 - 1, ret |-> [kind |-> "none"],
     repeat |-> FALSE]

\* write_daily_summary with a malformed date: NonRetryableError(VALIDATION)
WriteInvalidDate(summaries, date) ==
    /\ ~IsValidDate(date)
    /\ ylast' = YLast("write", date, Len(summaries), [kind |-> "error", category |-> "validation"])
    /\ UNCHANGED files

\* write_daily_summary, file exists: append_to_existing_summary
WriteAppend(summaries, date, now) ==
    /\ IsValidDate(date)
    /\ files[date] # NoFile
    /\ Len(_load_existing_yaml(files[date])["emails"]) + Len(summaries) <= MaxStored
    /\ files' = [files EXCEPT ![date] = AppendedData(files[date], summaries, now)]
    /\ ylast' = YLast("write", date, Len(summaries), PathOf(date))

\* write_daily_summary, no file yet: _create_new_summary_file
WriteCreate(summaries, date, now) ==
    /\ IsValidDate(date)
    /\ files[date] = NoFile
    /\ files' = [files EXCEPT ![date] = NewSummaryData(summaries, date, now)]
    /\ ylast' = YLast("write", date, Len(summaries), PathOf(date))

write_daily_summary ==
    \E summaries \in Batches, date \in Dates, now \in Times :
        \/ WriteInvalidDate(summaries, date)
        \/ WriteAppend(summaries, date, now)
        \/ WriteCreate(summaries, date, now)

\* create_empty_summary_file, record with emails exists: return its path
CreateEmptyKeep(date) ==
    /\ KeepsExisting(files[date])
    /\ ylast' = YLast("create_empty", date, 0, PathOf(date))
    /\ UNCHANGED files

\* create_empty_summary_file, no record or an empty one: write the empty record
CreateEmptyWrite(date, now) ==
    /\ ~KeepsExisting(files[date])
    /\ files' = [files EXCEPT ![date] = EmptyData(date, now)]
    /\ ylast' = YLast("create_empty", date, 0, PathOf(date))

create_empty_summary_file ==
    \E date \in Dates, now \in Times :
        \/ CreateEmptyKeep(date)
        \/ CreateEmptyWrite(date, now)

YamlNext ==
    /\ \/ write_daily_summary
       \/ create_empty_summary_file
    /\ UNCHANGED <<retryVars, storeVars, transcriptVars, batchVars, fetchVars, runVars, permVars, dateVars, raceVars, providerVars, idsVars, authVars>>


(***************************************************************************)
(* Search configuration store (SearchConfigManager).  The file is absent,  *)
(* holds invalid JSON, or holds a JSON object, modelled as a dictionary.   *)
(***************************************************************************)

CONFIG_VERSION == "1.0"
SUPPORTED_VERSIONS == {"1.0"}
None == "None"

Names == {"work", "personal"}
Absent == [kind |-> "absent"]
Corrupt == [kind |-> "corrupt"]
Json(data) == [kind |-> "json", data |-> data]

\* dict.get(key, default)
Get(data, key, default) == IF Has(data, key) THEN data[key] ELSE default

\* the dictionary without the given keys
Without(data, keys) == [k \in DOMAIN data \ keys |-> data[k]]

EmptyDict == [k \in {} |-> None]

\* ---- QueryValidator: a query is a sequence of operator:value terms ----
SUPPORTED_OPERATORS ==
    {"from:", "to:", "cc:", "bcc:", "subject:", "has:", "is:", "in:",
     "after:", "before:", "older_than:", "newer_than:", "size:",
     "larger:", "smaller:", "filename:", "label:", "category:",
     "deliveredto:", "circle:", "rfc822msgid:"}
VALID_HAS_VALUES ==
    {"attachment", "nouserlabels", "userlabels", "yellow-star", "blue-info", "red-bang",
     "orange-guillemet", "red-star", "purple-star", "green-star", "yellow-bang"}
VALID_IS_VALUES ==
    {"important", "starred", "unread", "read", "chat", "muted", "snoozed", "spam", "trash"}
VALID_IN_VALUES ==
    {"inbox", "trash", "spam", "unread", "starred", "sent", "drafts", "important",
     "chats", "all", "anywhere"}

Term(operator, value) == [operator |-> operator, value |-> value]

\* the queries given to the store; none uses a date or size operator
Queries ==
    { <<>>,
      <<Term("is:", "unread")>>,
      <<Term("is:", "unred")>>,
      <<Term("from:", "boss"), Term("has:", "attachment")>>,
      <<Term("form:", "boss")>> }

\* ---- dates of after: and before: ----
DigitChars == <<"0", "1", "2", "3", "4", "5", "6", "7", "8", "9">>

IsDigit(c) == \E i \in 1..Len(DigitChars) : DigitChars[i] = c

DigitValue(c) == (CHOOSE i \in 1..Len(DigitChars) : DigitChars[i] = c) - 1

\* int() of a string of digits
RECURSIVE ToInt(_)
ToInt(s) ==
    IF s = <<>> THEN 0
    ELSE 10 * ToInt(SubSeq(s, 1, Len(s) - 1)) + DigitValue(s[Len(s)])

\* re.fullmatch of four digits, sep, two digits, sep, two digits: the
\* first two of DATE_PATTERNS with sep "-" and "/"
MatchesDatePattern(date_str, sep) ==
    /\ Len(date_str) = 10
    /\ \A i \in {1, 2, 3, 4, 6, 7, 9, 10} : IsDigit(date_str[i])
    /\ date_str[5] = sep
    /\ date_str[8] = sep

IsLeapYear(year) == year % 4 = 0 /\ (year % 100 # 0 \/ year % 400 = 0)

\* the checks made on the three numbers of date_str.split('-')
DashDateOk(year, month, day) ==
    /\ 1 <= month /\ month <= 12 /\ 1 <= day /\ day <= 31
    /\ ~(month = 2 /\ day > 29)
    /\ ~(month = 2 /\ day = 29 /\ ~IsLeapYear(year))
    /\ ~(month \in {4, 6, 9, 11} /\ day > 30)

_validate_date_format(date_str) ==
    IF MatchesDatePattern(date_str, "-")
    THEN DashDateOk(ToInt(SubSeq(date_str, 1, 4)), ToInt(SubSeq(date_str, 6, 7)),
                    ToInt(SubSeq(date_str, 9, 10)))
    ELSE MatchesDatePattern(date_str, "/")

\* _validate_operator returns no error
_validate_operator(operator, value) ==
    /\ operator \in SUPPORTED_OPERATORS
    /\ operator = "has:" => value \in VALID_HAS_VALUES
    /\ operator = "is:" => value \in VALID_IS_VALUES
    /\ operator = "in:" => value \in VALID_IN_VALUES
    /\ operator \in {"after:", "before:"} => _validate_date_format(value)

validate_query(query) ==
    /\ query # <<>>
    /\ \A i \in 1..Len(query) : _validate_operator(query[i].operator, query[i].value)

\* ---- the files the store can find on disk ----
StoredQuery == <<Term("is:", "unread")>>
FullConfig(name) ==
    [name |-> name, query |-> StoredQuery, description |-> "legacy",
     created_at |-> "t0", last_used |-> "t0", usage_count |-> 5]
MissingSets ==
    { {}, {"usage_count", "last_used"},
      {"usage_count", "last_used", "created_at"}, {"query"} }
LegacyConfigDicts(name) == {Without(FullConfig(name), m) : m \in MissingSets}

\* every map from some of the names to a configuration dictionary
ConfigMaps ==
    UNION { {f \in [ns -> UNION {LegacyConfigDicts(n) : n \in ns}] :
                \A n \in ns : f[n] \in LegacyConfigDicts(n)} : ns \in SUBSET Names }

\* isinstance(value, dict) for the value stored under a root key
IsDictKey(key) == key # "version"

\* the named entries of a file: its "configs" object, or else its root-level
\* entries
LegacyEntriesOf(data) ==
    IF "configs" \in DOMAIN data THEN data["configs"]
    ELSE [k \in {x \in DOMAIN data : IsDictKey(x)} |-> data[k]]

FileVersions == {"none", "0.0", "1.0", "2.0"}
WithVersion(data, ver) == IF ver = "none" THEN data ELSE SetKey(data, "version", ver)

DiskFiles ==
    {Absent, Corrupt}
    \cup {Json(WithVersion([configs |-> m], ver)) : m \in ConfigMaps, ver \in FileVersions}
    \cup {Json(WithVersion(m, ver)) : m \in ConfigMaps, ver \in {"none", "1.0"}}

\* the files put in place of the store's file while a manager exists: the
\* same shapes, with at most one configuration
EditedFiles ==
    {f \in DiskFiles :
        f.kind = "json" =>
            Cardinality(DOMAIN LegacyEntriesOf(f.data)) <= 1}

DefaultConfig == [version |-> CONFIG_VERSION, configs |-> EmptyDict]

\* mutant: root-level configurations are not lifted into "configs"
_migrate_from_legacy_NoLift(config_data) ==
    IF Has(config_data, "configs")
    THEN [version |-> "1.0", configs |-> config_data["configs"]]
    ELSE [version |-> "1.0", configs |-> EmptyDict]

\* _migrate_from_legacy
_migrate_from_legacy(config_data) ==
    IF Has(config_data, "configs")
    THEN [version |-> "1.0", configs |-> config_data["configs"]]
    ELSE LET keys == {k \in DOMAIN config_data :
                         IsDictKey(k) /\ Has(config_data[k], "query")}
         IN  [version |-> "1.0", configs |-> [k \in keys |-> config_data[k]]]

\* _migrate_unsupported_version
_migrate_unsupported_version(config_data, now) ==
    IF Has(config_data, "configs")
    THEN LET old == config_data["configs"]
             keys == {k \in DOMAIN old : Has(old[k], "query")}
         IN  [version |-> CONFIG_VERSION,
              configs |-> [k \in keys |->
                 [name |-> Get(old[k], "name", k),
                  query |-> old[k]["query"],
                  description |-> Get(old[k], "description", "Migrated configuration"),
                  created_at |-> Get(old[k], "created_at", now),
                  last_used |-> Get(old[k], "last_used", None),
                  usage_count |-> Get(old[k], "usage_count", 0)]]]
    ELSE [version |-> CONFIG_VERSION, configs |-> EmptyDict]

\* _migrate_config_file
_migrate_config_file(config_data, current_version, now) ==
    IF current_version \notin SUPPORTED_VERSIONS /\ current_version # "0.0"
    THEN _migrate_unsupported_version(config_data, now)
    ELSE LET data == IF current_version = "0.0" THEN _migrate_from_legacy(config_data)
                     ELSE config_data
         IN  SetKey(data, "version", CONFIG_VERSION)

\* the per-configuration normalization of _migrate_from_v0_to_v1
NormalizeConfig(config_dict, now) ==
    LET c1 == IF Has(config_dict, "usage_count") THEN config_dict
              ELSE SetKey(config_dict, "usage_count", 0)
        c2 == IF Has(c1, "last_used") THEN c1 ELSE SetKey(c1, "last_used", None)
    IN  IF Has(c2, "created_at") THEN c2 ELSE SetKey(c2, "created_at", now)

\* _migrate_from_v0_to_v1
_migrate_from_v0_to_v1(config_data, now) ==
    LET d1 == IF Has(config_data, "configs") THEN config_data
              ELSE SetKey(config_data, "configs", EmptyDict)
    IN  SetKey(d1, "configs",
               [k \in DOMAIN d1["configs"] |-> NormalizeConfig(d1["configs"][k], now)])

\* SearchConfig.to_dict
to_dict(config) ==
    [name |-> config.name, query |-> config.query, description |-> config.description,
     created_at |-> config.created_at, last_used |-> config.last_used,
     usage_count |-> config.usage_count]

\* the SearchConfig objects passed to save_config
NewConfigs ==
    [name : Names, query : Queries, description : {"new"}, created_at : Times,
     last_used : {None}, usage_count : {0}]

\* whether _load_config_file finds a file it must treat as corrupted
LoadCorrupted(file) ==
    \/ file = Corrupt
    \/ file.kind = "json" /\ ~Has(file.data, "configs")

\* no operation yet
SLastNone ==
    [op |-> "none", ret |-> "none", found |-> "none", name |-> "", prev |-> <<"none", "none">>]

\* the record of an operation: what it found, what it returned or raised,
\* and which operation with which result came before it
SLast(op, ret, found, name) ==
    [op |-> op, ret |-> ret, found |-> found, name |-> name, prev |-> <<slast.op, slast.ret>>]

\* the value of the "version" key, "none" when the key is missing
RawVersion(data) == Get(data, "version", "none")

\* _ensure_config_file, no file: _create_default_config_file
OpenAbsent ==
    /\ cfile = Absent
    /\ cfile' = Json(DefaultConfig)
    /\ manager' = TRUE
    /\ slast' = SLast("open", "ok", "absent", "")
    /\ UNCHANGED backups

\* mutant: the corrupted file is backed up but not recreated
OpenCorrupted_NoRecreate ==
    /\ \/ cfile = Corrupt
       \/ /\ cfile.kind = "json"
          /\ Get(cfile.data, "version", "0.0") = CONFIG_VERSION
          /\ ~Has(cfile.data, "configs")
    /\ backups' = backups \cup {"corrupted"}
    /\ slast' = SLast("open", "CorruptedConfigFileError",
                      IF cfile = Corrupt THEN "invalid_json" ELSE "invalid_structure", "")
    /\ UNCHANGED <<cfile, manager>>

\* _ensure_config_file, invalid JSON or a current-version file without
\* "configs": _handle_corrupted_config_file backs the file up, recreates the
\* default file and raises CorruptedConfigFileError (no manager is built)
OpenCorrupted ==
    /\ \/ cfile = Corrupt
       \/ /\ cfile.kind = "json"
          /\ Get(cfile.data, "version", "0.0") = CONFIG_VERSION
          /\ ~Has(cfile.data, "configs")
    /\ backups' = backups \cup {"corrupted"}
    /\ cfile' = Json(DefaultConfig)
    /\ slast' = SLast("open", "CorruptedConfigFileError",
                      IF cfile = Corrupt THEN "invalid_json" ELSE "invalid_structure", "")
    /\ UNCHANGED manager

\* _ensure_config_file, version differs: backup, _migrate_config_file, save
OpenMigrate(now) ==
    /\ cfile.kind = "json"
    /\ Get(cfile.data, "version", "0.0") # CONFIG_VERSION
    /\ backups' = backups \cup {"backup"}
    /\ cfile' = Json(_migrate_config_file(cfile.data, Get(cfile.data, "version", "0.0"), now))
    /\ manager' = TRUE
    /\ slast' = SLast("open", "ok", RawVersion(cfile.data), "")

\* _ensure_config_file, current version with both keys: nothing to do
OpenCurrent ==
    /\ cfile.kind = "json"
    /\ Get(cfile.data, "version", "0.0") = CONFIG_VERSION
    /\ Has(cfile.data, "configs")
    /\ manager' = TRUE
    /\ slast' = SLast("open", "ok", CONFIG_VERSION, "")
    /\ UNCHANGED <<cfile, backups>>

\* SearchConfigManager(config_file)
Open ==
    \/ OpenAbsent
    \/ OpenCorrupted
    \/ \E now \in Times : OpenMigrate(now)
    \/ OpenCurrent

\* save_config, the query fails validation: QueryValidationError
SaveInvalidQuery(config) ==
    /\ ~validate_query(config.query)
    /\ slast' = SLast("save", "QueryValidationError", "none", config.name)
    /\ UNCHANGED <<cfile, backups>>

\* mutant: a taken name is overwritten
SaveDuplicate_Overwrite(config) ==
    /\ validate_query(config.query)
    /\ cfile.kind = "json"
    /\ ~LoadCorrupted(cfile)
    /\ config.name \in DOMAIN cfile.data["configs"]
    /\ cfile' = Json(SetKey(cfile.data, "configs",
                            SetKey(cfile.data["configs"], config.name, to_dict(config))))
    /\ slast' = SLast("save", "ok", "none", config.name)
    /\ UNCHANGED backups

\* save_config, the name is taken: InvalidConfigurationError
SaveDuplicate(config) ==
    /\ validate_query(config.query)
    /\ cfile.kind = "json"
    /\ ~LoadCorrupted(cfile)
    /\ config.name \in DOMAIN cfile.data["configs"]
    /\ slast' = SLast("save", "InvalidConfigurationError", "none", config.name)
    /\ UNCHANGED <<cfile, backups>>

\* save_config, the name is free: insert and write the file
SaveNew(config) ==
    /\ validate_query(config.query)
    /\ cfile.kind = "json"
    /\ ~LoadCorrupted(cfile)
    /\ config.name \notin DOMAIN cfile.data["configs"]
    /\ cfile' = Json(SetKey(cfile.data, "configs",
                            SetKey(cfile.data["configs"], config.name, to_dict(config))))
    /\ slast' = SLast("save", "ok", "none", config.name)
    /\ UNCHANGED backups

\* save_config, the file is gone or corrupted: _load_config_file recreates
\* the default file and save_config goes on with the default structure
SaveRecovered(config) ==
    /\ validate_query(config.query)
    /\ cfile = Absent \/ LoadCorrupted(cfile)
    /\ backups' = IF cfile = Absent THEN backups ELSE backups \cup {"corrupted"}
    /\ cfile' = Json(SetKey(DefaultConfig, "configs",
                            SetKey(EmptyDict, config.name, to_dict(config))))
    /\ slast' = SLast("save", "ok", IF cfile = Absent THEN "absent" ELSE "corrupt", config.name)

save_config ==
    /\ manager
    /\ \E config \in NewConfigs :
        \/ SaveInvalidQuery(config)
        \/ SaveDuplicate(config)
        \/ SaveNew(config)
        \/ SaveRecovered(config)
    /\ UNCHANGED manager

\* migrate_config_file, _load_config_file fails on a corrupted file: the
\* handler recreates the default file, the error is caught, returns False
MigrateLoadCorrupted ==
    /\ LoadCorrupted(cfile)
    /\ backups' = backups \cup {"corrupted"}
    /\ cfile' = Json(DefaultConfig)
    /\ slast' = SLast("migrate", "False", "corrupt", "")

\* migrate_config_file, already at the current version (a missing file is
\* recreated by _load_config_file and is then current)
MigrateCurrent ==
    /\ \/ cfile = Absent
       \/ /\ cfile.kind = "json"
          /\ ~LoadCorrupted(cfile)
          /\ Get(cfile.data, "version", "0.0") = CONFIG_VERSION
    /\ cfile' = IF cfile = Absent THEN Json(DefaultConfig) ELSE cfile
    /\ slast' = SLast("migrate", "True", IF cfile = Absent THEN "absent" ELSE CONFIG_VERSION, "")
    /\ UNCHANGED backups

\* migrate_config_file(backup=True), older or foreign version: the backup
\* call hands _create_backup the name of the backup, a file that does not
\* exist, so the copy raises; the error is caught and False is returned
MigrateOldBackup ==
    /\ cfile.kind = "json"
    /\ ~LoadCorrupted(cfile)
    /\ Get(cfile.data, "version", "0.0") # CONFIG_VERSION
    /\ slast' = SLast("migrate", "False", RawVersion(cfile.data), "")
    /\ UNCHANGED <<cfile, backups>>

\* migrate_config_file(backup=False), older or foreign version:
\* _migrate_from_v0_to_v1 for "0.0", stamp the version, save
MigrateOld(now) ==
    /\ cfile.kind = "json"
    /\ ~LoadCorrupted(cfile)
    /\ Get(cfile.data, "version", "0.0") # CONFIG_VERSION
    /\ LET current_version == Get(cfile.data, "version", "0.0")
           data == IF current_version = "0.0" THEN _migrate_from_v0_to_v1(cfile.data, now)
                   ELSE cfile.data
       IN  /\ cfile' = Json(SetKey(data, "version", CONFIG_VERSION))
           /\ slast' = SLast("migrate", "True", RawVersion(cfile.data), "")
    /\ UNCHANGED backups

migrate_config_file ==
    /\ manager
    /\ \/ MigrateLoadCorrupted
       \/ MigrateCurrent
       \/ MigrateOldBackup
       \/ \E now \in Times : MigrateOld(now)
    /\ UNCHANGED manager

\* the file is replaced from outside the store (an editor, a restore, a test)
ExternalEdit ==
    /\ \E f \in EditedFiles : cfile' = f
    /\ slast' = SLast("edit", "none", "none", "")
    /\ UNCHANGED <<backups, manager>>

StoreNext ==
    /\ \/ Open
       \/ save_config
       \/ migrate_config_file
       \/ ExternalEdit
    /\ UNCHANGED <<retryVars, yamlVars, transcriptVars, batchVars, fetchVars, runVars, permVars, dateVars, raceVars, providerVars, idsVars, authVars>>

(***************************************************************************)
(* Specifications                                                          *)
(***************************************************************************)

\* a decorator built with one attempt, used where the wrapper is not run
IdleRetryConfig == [max_attempts |-> 1, base_delay |-> 10, max_delay |-> 20, jitter |-> FALSE]

\* the wrapper is entered with a configuration; no daily record, no store
RetryInit ==
    /\ rcfg \in RetryConfigs
    /\ rpc = "running"
    /\ attempt = 0
    /\ calls = <<>>
    /\ rout = [kind |-> "none"]
    /\ slept = <<>>
    /\ files = [d \in Dates |-> NoFile]
    /\ ylast = YLastNone
    /\ cfile = Absent
    /\ backups = {}
    /\ manager = FALSE
    /\ slast = SLastNone
    /\ tfile = NoFile
    /\ tsummarizer = FALSE
    /\ tai = [kind |-> "none"]
    /\ tout = [kind |-> "none"]
    /\ bemails = <<>>
    /\ bpc = "idle"
    /\ bi = 0
    /\ bcalls = <<>>
    /\ bsummaries = <<>>
    /\ fids = <<>>
    /\ fpc = "idle"
    /\ fi = 0
    /\ fcalls = <<>>
    /\ femails = <<>>
    /\ fout = "none"
    /\ pargs = <<>>
    /\ ppc = "idle"
    /\ pquery = [kind |-> "none"]
    /\ plog = [error |-> "none"]
    /\ ptranscript = "none"
    /\ pexit = {}
    /\ modes = [k \in {"token", "config", "summary", "transcript"} |-> {"none"}]
    /\ umask = {}
    /\ wlast = [kind |-> "none"]
    /\ dstr = <<>>
    /\ dlast = [operator |-> "none"]
    /\ lfile = NoFile
    /\ lstart = NoFile
    /\ lbatch = <<>>
    /\ lpc = <<>>
    /\ lread = <<>>
    /\ aprovider = "none"
    /\ aresponses = <<>>
    /\ gmax = 0
    /\ gpc = "idle"
    /\ gouter = 0
    /\ ginner = 0
    /\ gn = 0
    /\ gtoken = None
    /\ gcalls = <<>>
    /\ gtotal = 0
    /\ gallretry = TRUE
    /\ gout = [kind |-> "none"]
    /\ kstart = [kind |-> "none"]
    /\ kfile = "none"
    /\ kargs = [headless |-> FALSE]
    /\ kpc = "idle"
    /\ kcreds = [none |-> TRUE]
    /\ ksteps = {}
    /\ kout = [exc |-> "none"]

\* a writer on an empty output directory
YamlInit ==
    /\ rcfg = IdleRetryConfig
    /\ rpc = "returned"
    /\ attempt = 0
    /\ calls = <<>>
    /\ rout = [kind |-> "none"]
    /\ slept = <<>>
    /\ files = [d \in Dates |-> NoFile]
    /\ ylast = YLastNone
    /\ cfile = Absent
    /\ backups = {}
    /\ manager = FALSE
    /\ slast = SLastNone
    /\ tfile = NoFile
    /\ tsummarizer = FALSE
    /\ tai = [kind |-> "none"]
    /\ tout = [kind |-> "none"]
    /\ bemails = <<>>
    /\ bpc = "idle"
    /\ bi = 0
    /\ bcalls = <<>>
    /\ bsummaries = <<>>
    /\ fids = <<>>
    /\ fpc = "idle"
    /\ fi = 0
    /\ fcalls = <<>>
    /\ femails = <<>>
    /\ fout = "none"
    /\ pargs = <<>>
    /\ ppc = "idle"
    /\ pquery = [kind |-> "none"]
    /\ plog = [error |-> "none"]
    /\ ptranscript = "none"
    /\ pexit = {}
    /\ modes = [k \in {"token", "config", "summary", "transcript"} |-> {"none"}]
    /\ umask = {}
    /\ wlast = [kind |-> "none"]
    /\ dstr = <<>>
    /\ dlast = [operator |-> "none"]
    /\ lfile = NoFile
    /\ lstart = NoFile
    /\ lbatch = <<>>
    /\ lpc = <<>>
    /\ lread = <<>>
    /\ aprovider = "none"
    /\ aresponses = <<>>
    /\ gmax = 0
    /\ gpc = "idle"
    /\ gouter = 0
    /\ ginner = 0
    /\ gn = 0
    /\ gtoken = None
    /\ gcalls = <<>>
    /\ gtotal = 0
    /\ gallretry = TRUE
    /\ gout = [kind |-> "none"]
    /\ kstart = [kind |-> "none"]
    /\ kfile = "none"
    /\ kargs = [headless |-> FALSE]
    /\ kpc = "idle"
    /\ kcreds = [none |-> TRUE]
    /\ ksteps = {}
    /\ kout = [exc |-> "none"]

\* any configuration file on disk, no manager constructed yet
StoreInit ==
    /\ rcfg = IdleRetryConfig
    /\ rpc = "returned"
    /\ attempt = 0
    /\ calls = <<>>
    /\ rout = [kind |-> "none"]
    /\ slept = <<>>
    /\ files = [d \in Dates |-> NoFile]
    /\ ylast = YLastNone
    /\ cfile \in DiskFiles
    /\ backups = {}
    /\ manager = FALSE
    /\ slast = SLastNone
    /\ tfile = NoFile
    /\ tsummarizer = FALSE
    /\ tai = [kind |-> "none"]
    /\ tout = [kind |-> "none"]
    /\ bemails = <<>>
    /\ bpc = "idle"
    /\ bi = 0
    /\ bcalls = <<>>
    /\ bsummaries = <<>>
    /\ fids = <<>>
    /\ fpc = "idle"
    /\ fi = 0
    /\ fcalls = <<>>
    /\ femails = <<>>
    /\ fout = "none"
    /\ pargs = <<>>
    /\ ppc = "idle"
    /\ pquery = [kind |-> "none"]
    /\ plog = [error |-> "none"]
    /\ ptranscript = "none"
    /\ pexit = {}
    /\ modes = [k \in {"token", "config", "summary", "transcript"} |-> {"none"}]
    /\ umask = {}
    /\ wlast = [kind |-> "none"]
    /\ dstr = <<>>
    /\ dlast = [operator |-> "none"]
    /\ lfile = NoFile
    /\ lstart = NoFile
    /\ lbatch = <<>>
    /\ lpc = <<>>
    /\ lread = <<>>
    /\ aprovider = "none"
    /\ aresponses = <<>>
    /\ gmax = 0
    /\ gpc = "idle"
    /\ gouter = 0
    /\ ginner = 0
    /\ gn = 0
    /\ gtoken = None
    /\ gcalls = <<>>
    /\ gtotal = 0
    /\ gallretry = TRUE
    /\ gout = [kind |-> "none"]
    /\ kstart = [kind |-> "none"]
    /\ kfile = "none"
    /\ kargs = [headless |-> FALSE]
    /\ kpc = "idle"
    /\ kcreds = [none |-> TRUE]
    /\ ksteps = {}
    /\ kout = [exc |-> "none"]

SpecRetry == RetryInit /\ [][RetryNext]_vars
SpecYaml == YamlInit /\ [][YamlNext]_vars
SpecStore == StoreInit /\ [][StoreNext]_vars

(***************************************************************************)
(* Usage statistics of the store (update_usage_stats), run by a manager    *)
(* over whatever file is on disk at the time of the call.                  *)
(***************************************************************************)

MaxUsage == 7        \* largest usage_count the calls count up to

\* the dictionary update_usage_stats stores for a configuration
UsedConfig(config_dict, now) ==
    LET old_count == Get(config_dict, "usage_count", 0)
    IN  SetKey(SetKey(config_dict, "usage_count", old_count + 1), "last_used", now)

\* mutant: the count restarts from the default instead of the stored value
UsageUpdate_Restart(name, now) ==
    /\ cfile.kind = "json"
    /\ ~LoadCorrupted(cfile)
    /\ name \in DOMAIN cfile.data["configs"]
    /\ Get(cfile.data["configs"][name], "usage_count", 0) < MaxUsage
    /\ cfile' = Json(SetKey(cfile.data, "configs",
                   SetKey(cfile.data["configs"], name,
                          SetKey(SetKey(cfile.data["configs"][name], "usage_count", 1),
                                 "last_used", now))))
    /\ slast' = SLast("update", "True", now, name)
    /\ UNCHANGED backups

\* update_usage_stats, the name is stored: count it, stamp it, save
UsageUpdate(name, now) ==
    /\ cfile.kind = "json"
    /\ ~LoadCorrupted(cfile)
    /\ name \in DOMAIN cfile.data["configs"]
    /\ Get(cfile.data["configs"][name], "usage_count", 0) < MaxUsage
    /\ cfile' = Json(SetKey(cfile.data, "configs",
                   SetKey(cfile.data["configs"], name,
                          UsedConfig(cfile.data["configs"][name], now))))
    /\ slast' = SLast("update", "True", now, name)
    /\ UNCHANGED backups

\* update_usage_stats, the name is not stored: return False
UsageNotFound(name) ==
    /\ cfile.kind = "json"
    /\ ~LoadCorrupted(cfile)
    /\ name \notin DOMAIN cfile.data["configs"]
    /\ slast' = SLast("update", "False", "none", name)
    /\ UNCHANGED <<cfile, backups>>

\* update_usage_stats, no file: _load_config_file creates the default file,
\* in which the name is not stored
UsageNoFile(name) ==
    /\ cfile = Absent
    /\ cfile' = Json(DefaultConfig)
    /\ slast' = SLast("update", "False", "absent", name)
    /\ UNCHANGED backups

\* update_usage_stats, corrupted file: the handler recreates the default
\* file and raises; the error is caught and False is returned
UsageCorrupted(name) ==
    /\ LoadCorrupted(cfile)
    /\ backups' = backups \cup {"corrupted"}
    /\ cfile' = Json(DefaultConfig)
    /\ slast' = SLast("update", "False", "corrupt", name)

update_usage_stats ==
    /\ manager
    /\ \E name \in Names :
        \/ \E now \in Times : UsageUpdate(name, now)
        \/ UsageNotFound(name)
        \/ UsageNoFile(name)
        \/ UsageCorrupted(name)
    /\ UNCHANGED manager

UsageNext == update_usage_stats /\ UNCHANGED <<retryVars, yamlVars, transcriptVars, batchVars, fetchVars, runVars, permVars, dateVars, raceVars, providerVars, idsVars, authVars>>

\* a constructed manager, any configuration file on disk
UsageInit ==
    /\ rcfg = IdleRetryConfig
    /\ rpc = "returned"
    /\ attempt = 0
    /\ calls = <<>>
    /\ rout = [kind |-> "none"]
    /\ slept = <<>>
    /\ files = [d \in Dates |-> NoFile]
    /\ ylast = YLastNone
    /\ cfile \in DiskFiles
    /\ backups = {}
    /\ manager = TRUE
    /\ slast = SLastNone
    /\ tfile = NoFile
    /\ tsummarizer = FALSE
    /\ tai = [kind |-> "none"]
    /\ tout = [kind |-> "none"]
    /\ bemails = <<>>
    /\ bpc = "idle"
    /\ bi = 0
    /\ bcalls = <<>>
    /\ bsummaries = <<>>
    /\ fids = <<>>
    /\ fpc = "idle"
    /\ fi = 0
    /\ fcalls = <<>>
    /\ femails = <<>>
    /\ fout = "none"
    /\ pargs = <<>>
    /\ ppc = "idle"
    /\ pquery = [kind |-> "none"]
    /\ plog = [error |-> "none"]
    /\ ptranscript = "none"
    /\ pexit = {}
    /\ modes = [k \in {"token", "config", "summary", "transcript"} |-> {"none"}]
    /\ umask = {}
    /\ wlast = [kind |-> "none"]
    /\ dstr = <<>>
    /\ dlast = [operator |-> "none"]
    /\ lfile = NoFile
    /\ lstart = NoFile
    /\ lbatch = <<>>
    /\ lpc = <<>>
    /\ lread = <<>>
    /\ aprovider = "none"
    /\ aresponses = <<>>
    /\ gmax = 0
    /\ gpc = "idle"
    /\ gouter = 0
    /\ ginner = 0
    /\ gn = 0
    /\ gtoken = None
    /\ gcalls = <<>>
    /\ gtotal = 0
    /\ gallretry = TRUE
    /\ gout = [kind |-> "none"]
    /\ kstart = [kind |-> "none"]
    /\ kfile = "none"
    /\ kargs = [headless |-> FALSE]
    /\ kpc = "idle"
    /\ kcreds = [none |-> TRUE]
    /\ ksteps = {}
    /\ kout = [exc |-> "none"]

SpecUsage == UsageInit /\ [][UsageNext]_vars

(***************************************************************************)
(* Transcript generator (TranscriptGenerator).  A text produced by the     *)
(* deterministic template is the list transcript_parts that the code joins *)
(* with blanks; an AI response is a string over a small alphabet.          *)
(***************************************************************************)

MaxEmails == 5          \* most emails in a day record
MaxResponseLen == 3     \* longest AI response, in characters

EmailCounts == {0, 1, 2, MaxEmails}
ItemCounts == {0, 1, 2, 5, 10}      \* action items carried by each email
PlainItem == "send the report"
DashedItem == "-5% budget memo: reply"   \* parsed from the bullet "- -5% budget memo: reply"
Priorities == {"High", "Medium", "Low"}

\* str.startswith('-') on the action items of the model
StartsWithDash(item) == item = DashedItem

\* priority.lower() for a string; None has no lower()
Lower(priority) ==
    CASE priority = "High" -> "high"
      [] priority = "Medium" -> "medium"
      [] priority = "Low" -> "low"

\* the priorities of the emails of a day, by position
PriorityPatterns ==
    { [i \in 1..(MaxEmails + 1) |-> "Medium"],
      [i \in 1..(MaxEmails + 1) |-> IF i % 3 = 1 THEN "Low" ELSE IF i % 3 = 2 THEN "High" ELSE "Medium"] }

\* None in a field that should hold a list
NoneList == <<None>>

\* a record edited by hand: "none" is what the writer produces
Breakages == {"none", "priority", "key_points"}

\* the emails list of a day record: n emails, per action items each, the
\* dashed item at overall position odd (0: nowhere)
DayEmails(n, per, odd, pat, broken) ==
    [i \in 1..n |->
        [subject |-> "s",
         priority |-> IF broken = "priority" /\ i = 1 THEN None ELSE pat[i],
         key_points |-> IF broken = "key_points" /\ i = 1 THEN NoneList ELSE <<"k">>,
         action_items |-> [j \in 1..per |->
                              IF (i - 1) * per + j = odd THEN DashedItem ELSE PlainItem]]]

TranscriptDays ==
    {DayEmails(n, per, odd, pat, broken) :
        n \in EmailCounts, per \in ItemCounts, odd \in {0, 2, 7},
        pat \in PriorityPatterns, broken \in Breakages}

\* the YAML files generate_transcript can be pointed at
TranscriptFiles ==
    {NoFile, [date |-> "2024-01-15", status |-> EmptyStatus]}
    \cup {[emails |-> d] : d \in TranscriptDays}

\* ---- strings of the AI service ----
Backquote == "bq"       \* the backquote character
Alphabet == {"a", "*", Backquote, " "}
Responses == SeqsUpTo(Alphabet, MaxResponseLen)

RECURSIVE LStrip(_)
LStrip(s) == IF s # <<>> /\ Head(s) = " " THEN LStrip(Tail(s)) ELSE s

RECURSIVE RStrip(_)
RStrip(s) ==
    IF s # <<>> /\ s[Len(s)] = " " THEN RStrip(SubSeq(s, 1, Len(s) - 1)) ELSE s

\* str.strip()
Strip(s) == RStrip(LStrip(s))

StartsWith(s, m) == Len(s) >= Len(m) /\ SubSeq(s, 1, Len(m)) = m

\* positions at which a closing marker m can start after an opening one
Closings(s, m) ==
    {j \in (Len(m) + 1)..(Len(s) - Len(m) + 1) : SubSeq(s, j, j + Len(m) - 1) = m}

\* re.sub of "m, anything (lazy), m" by the content between the markers:
\* leftmost matches, shortest content
RECURSIVE Unwrap(_, _)
Unwrap(s, m) ==
    IF s = <<>> THEN <<>>
    ELSE IF StartsWith(s, m) /\ Closings(s, m) # {}
         THEN LET j == CHOOSE k \in Closings(s, m) : \A l \in Closings(s, m) : k <= l
              IN  SubSeq(s, Len(m) + 1, j - 1) \o Unwrap(SubSeq(s, j + Len(m), Len(s)), m)
         ELSE <<Head(s)>> \o Unwrap(Tail(s), m)

\* re.sub of every run of whitespace by one blank
RECURSIVE Squeeze(_)
Squeeze(s) ==
    IF Len(s) < 2 THEN s
    ELSE IF s[1] = " " /\ s[2] = " " THEN Squeeze(Tail(s))
         ELSE <<Head(s)>> \o Squeeze(Tail(s))

\* _format_transcript_content; the alphabet has no sentence punctuation, so
\* the sentence-spacing substitutions leave the text as it is
_format_transcript_content(ai_response) ==
    LET transcript == Strip(ai_response)
        no_bold == Unwrap(transcript, <<"*", "*">>)
        no_italic == Unwrap(no_bold, <<"*">>)
        no_code == Unwrap(no_italic, <<Backquote>>)
    IN  Squeeze(no_code)

\* outcomes of _call_ai_service_for_transcript: every exception of the
\* provider is converted to one of the two error types
AIOutcomes ==
    {[kind |-> "raise", exc |-> e] : e \in {"RetryableError", "NonRetryableError"}}
    \cup {[kind |-> "return", text |-> Strip(r)] : r \in Responses}

\* ---- the deterministic template ----
Part(kind, text) == [part |-> kind, text |-> text]

_create_empty_day_transcript(date) == <<Part("empty_day", date)>>

_create_minimal_fallback_transcript(date, email_count) ==
    <<Part("minimal",
           IF email_count = 0 THEN "no important emails"
           ELSE IF email_count = 1 THEN "one important email" ELSE "emails to review")>>

\* the emails of a bucket, in the order of summaries
RECURSIVE Bucket(_, _)
Bucket(summaries, bucket) ==
    IF summaries = <<>> THEN <<>>
    ELSE LET email == Head(summaries)
             priority == Lower(email.priority)
             where == IF priority \in {"high", "urgent", "important"} THEN "high"
                      ELSE IF priority \in {"low", "minor"} THEN "low" ELSE "medium"
         IN  (IF where = bucket THEN <<email>> ELSE <<>>) \o Bucket(Tail(summaries), bucket)

RECURSIVE Flatten(_)
Flatten(lists) == IF lists = <<>> THEN <<>> ELSE Head(lists) \o Flatten(Tail(lists))

\* mutant: the action items are collected bucket by bucket
AllActionItems_Bucketed(summaries) ==
    LET ordered == Bucket(summaries, "high") \o Bucket(summaries, "medium")
                       \o Bucket(summaries, "low")
    IN  Flatten([i \in 1..Len(ordered) |-> ordered[i].action_items])

\* all_action_items: every email's action items, in the order of summaries
AllActionItems(summaries) ==
    Flatten([i \in 1..Len(summaries) |-> summaries[i].action_items])

RECURSIVE ActionLines(_)
ActionLines(items) ==
    IF items = <<>> THEN <<>>
    ELSE (IF ~StartsWithDash(Head(items)) THEN <<Part("item", Head(items))>> ELSE <<>>)
         \o ActionLines(Tail(items))

\* the action-item recap: one item is named as it is, several are listed
\* with a dash, at most five of them, those that start with a dash left out
ActionRecap(all_action_items) ==
    IF all_action_items = <<>> THEN <<>>
    ELSE IF Len(all_action_items) = 1
         THEN <<Part("actions", "one action item"), Part("single_item", all_action_items[1])>>
         ELSE <<Part("actions", "main action items")>>
              \o ActionLines(SubSeq(all_action_items, 1, Min(5, Len(all_action_items))))

\* an exception inside the template: None has no lower()
TemplateRaises(summaries) == \E i \in 1..Len(summaries) : summaries[i].priority = None

\* the transcript_parts of _create_fallback_transcript when nothing raises
TemplateParts(summaries) ==
    LET email_count == Len(summaries)
        ordered == Bucket(summaries, "high") \o Bucket(summaries, "medium")
                       \o Bucket(summaries, "low")
        urgent == Len(Bucket(summaries, "high"))
        intro(c) == IF c = 1 THEN "First up,"
                    ELSE IF c = email_count THEN "Finally,"
                    ELSE IF c <= urgent THEN "Importantly," ELSE "Next,"
        all_action_items == AllActionItems(summaries)
    IN  <<Part("opening", "Good morning!"),
          Part("count", IF email_count = 1 THEN "one" ELSE IF email_count <= 3 THEN "few" ELSE "busy"),
          Part("lead", IF email_count = 1 THEN "Here's what you need to know:"
                       ELSE "Let me walk you through the key highlights:")>>
        \o [c \in 1..email_count |->
               [part |-> "email", text |-> ordered[c].subject, intro |-> intro(c),
                priority |-> ordered[c].priority]]
        \o ActionRecap(all_action_items)
        \o <<Part("closing", IF email_count = 1 THEN "single"
                             ELSE IF all_action_items # <<>> THEN "productive" ELSE "wonderful")>>

_create_fallback_transcript(summaries, date) ==
    IF summaries = <<>> THEN [via |-> "empty_day", text |-> _create_empty_day_transcript(date)]
    ELSE IF TemplateRaises(summaries)
         THEN [via |-> "minimal",
               text |-> _create_minimal_fallback_transcript(date, Len(summaries))]
         ELSE [via |-> "template", text |-> TemplateParts(summaries)]

\* _load_email_summaries on a file that exists
_load_email_summaries(data) == IF Has(data, "emails") THEN data["emails"] ELSE <<>>

\* _create_transcript_prompt joins the key points of every email
PromptRaises(summaries) == \E i \in 1..Len(summaries) : summaries[i].key_points = NoneList

Returned(date, result, ai) ==
    /\ tout' = [kind |-> "return", date |-> date, via |-> result.via, text |-> result.text]
    /\ tai' = ai

Raised(date, exc, ai) ==
    /\ tout' = [kind |-> "raise", date |-> date, exc |-> exc]
    /\ tai' = ai

NoAICall == [kind |-> "none"]

\* the date is not YYYY-MM-DD
TranscriptInvalidDate(date) ==
    /\ ~IsValidDate(date)
    /\ Raised(date, "NonRetryableError", NoAICall)

\* the YAML file does not exist
TranscriptNoFile(date) ==
    /\ IsValidDate(date)
    /\ tfile = NoFile
    /\ Raised(date, "NonRetryableError", NoAICall)

\* no summaries in the file: the empty-day transcript
TranscriptEmptyDay(date) ==
    /\ IsValidDate(date)
    /\ tfile # NoFile
    /\ _load_email_summaries(tfile) = <<>>
    /\ Returned(date, [via |-> "empty_day", text |-> _create_empty_day_transcript(date)], NoAICall)

\* no summarizer: the template
TranscriptNoAI(date) ==
    /\ IsValidDate(date)
    /\ tfile # NoFile
    /\ _load_email_summaries(tfile) # <<>>
    /\ ~tsummarizer
    /\ Returned(date, _create_fallback_transcript(_load_email_summaries(tfile), date), NoAICall)

\* building the prompt raises outside the handler of the AI errors; the
\* outer handler wraps the exception
TranscriptPromptRaises(date) ==
    /\ IsValidDate(date)
    /\ tfile # NoFile
    /\ _load_email_summaries(tfile) # <<>>
    /\ tsummarizer
    /\ PromptRaises(_load_email_summaries(tfile))
    /\ Raised(date, "NonRetryableError", NoAICall)

\* the AI call raises, or returns a blank response: the template
TranscriptAIFails(date, ai) ==
    /\ IsValidDate(date)
    /\ tfile # NoFile
    /\ _load_email_summaries(tfile) # <<>>
    /\ tsummarizer
    /\ ~PromptRaises(_load_email_summaries(tfile))
    /\ \/ ai.kind = "raise"
       \/ ai.kind = "return" /\ Strip(ai.text) = <<>>
    /\ Returned(date, _create_fallback_transcript(_load_email_summaries(tfile), date), ai)

\* the AI call returns a response that is not blank: it is formatted and
\* returned
TranscriptAI(date, ai) ==
    /\ IsValidDate(date)
    /\ tfile # NoFile
    /\ _load_email_summaries(tfile) # <<>>
    /\ tsummarizer
    /\ ~PromptRaises(_load_email_summaries(tfile))
    /\ ai.kind = "return"
    /\ Strip(ai.text) # <<>>
    /\ Returned(date, [via |-> "ai", text |-> _format_transcript_content(ai.text)], ai)

generate_transcript ==
    /\ \E date \in Dates :
        \/ TranscriptInvalidDate(date)
        \/ TranscriptNoFile(date)
        \/ TranscriptEmptyDay(date)
        \/ TranscriptNoAI(date)
        \/ TranscriptPromptRaises(date)
        \/ \E ai \in AIOutcomes :
            \/ TranscriptAIFails(date, ai)
            \/ TranscriptAI(date, ai)
    /\ UNCHANGED <<tfile, tsummarizer>>

TranscriptNext == generate_transcript /\ UNCHANGED <<retryVars, yamlVars, storeVars, batchVars, fetchVars, runVars, permVars, dateVars, raceVars, providerVars, idsVars, authVars>>

\* a generator with or without AI service, pointed at any day file
TranscriptInit ==
    /\ rcfg = IdleRetryConfig
    /\ rpc = "returned"
    /\ attempt = 0
    /\ calls = <<>>
    /\ rout = [kind |-> "none"]
    /\ slept = <<>>
    /\ files = [d \in Dates |-> NoFile]
    /\ ylast = YLastNone
    /\ cfile = Absent
    /\ backups = {}
    /\ manager = FALSE
    /\ slast = SLastNone
    /\ tfile \in TranscriptFiles
    /\ tsummarizer \in BOOLEAN
    /\ tai = [kind |-> "none"]
    /\ tout = [kind |-> "none"]
    /\ bemails = <<>>
    /\ bpc = "idle"
    /\ bi = 0
    /\ bcalls = <<>>
    /\ bsummaries = <<>>
    /\ fids = <<>>
    /\ fpc = "idle"
    /\ fi = 0
    /\ fcalls = <<>>
    /\ femails = <<>>
    /\ fout = "none"
    /\ pargs = <<>>
    /\ ppc = "idle"
    /\ pquery = [kind |-> "none"]
    /\ plog = [error |-> "none"]
    /\ ptranscript = "none"
    /\ pexit = {}
    /\ modes = [k \in {"token", "config", "summary", "transcript"} |-> {"none"}]
    /\ umask = {}
    /\ wlast = [kind |-> "none"]
    /\ dstr = <<>>
    /\ dlast = [operator |-> "none"]
    /\ lfile = NoFile
    /\ lstart = NoFile
    /\ lbatch = <<>>
    /\ lpc = <<>>
    /\ lread = <<>>
    /\ aprovider = "none"
    /\ aresponses = <<>>
    /\ gmax = 0
    /\ gpc = "idle"
    /\ gouter = 0
    /\ ginner = 0
    /\ gn = 0
    /\ gtoken = None
    /\ gcalls = <<>>
    /\ gtotal = 0
    /\ gallretry = TRUE
    /\ gout = [kind |-> "none"]
    /\ kstart = [kind |-> "none"]
    /\ kfile = "none"
    /\ kargs = [headless |-> FALSE]
    /\ kpc = "idle"
    /\ kcreds = [none |-> TRUE]
    /\ ksteps = {}
    /\ kout = [exc |-> "none"]

SpecTranscript == TranscriptInit /\ [][TranscriptNext]_vars

(***************************************************************************)
(* Batch summarization (EmailSummarizer.batch_summarize_emails).  Each     *)
(* iteration of the loop calls summarize_email, whose AI call goes through *)
(* retry_with_backoff and so ends with a response or with an exception.    *)
(***************************************************************************)

MaxBatchEmails == 3     \* longest list of emails of one batch

\* the EmailData objects of a run; has_keyword: the body contains one of
\* the action keywords
EmailDatas ==
    { [message_id |-> "m1", subject |-> "s1", sender |-> "a", has_keyword |-> TRUE],
      [message_id |-> "m2", subject |-> "s2", sender |-> "b", has_keyword |-> FALSE],
      [message_id |-> "m3", subject |-> "s3", sender |-> "a", has_keyword |-> TRUE] }

EmailBatches == SeqsUpTo(EmailDatas, MaxBatchEmails)

\* what _parse_ai_response finds in a response: a priority or none, and
\* the bullet points of the action items
ParsedResponses ==
    { [priority |-> "High", action_items |-> <<PlainItem>>],
      [priority |-> "none", action_items |-> <<>>],
      [priority |-> "Low", action_items |-> <<PlainItem, DashedItem>>] }

\* how _call_ai_service ends: a response, RetryableError once the attempts
\* are exhausted, NonRetryableError, or ValueError for an unknown provider
SummaryOutcomes ==
    {[kind |-> "return", parsed |-> p] : p \in ParsedResponses}
    \cup {[kind |-> "raise", exc |-> e] :
            e \in {"RetryableError", "NonRetryableError", "ValueError"}}

\* the EmailSummary built from a parsed response
AISummary(email_data, parsed) ==
    [subject |-> email_data.subject,
     sender |-> email_data.sender,
     summary |-> "ai",
     action_items |-> parsed.action_items,
     priority |-> IF parsed.priority = "none" THEN "Medium" ELSE parsed.priority]

_create_fallback_summary(email_data) ==
    [subject |-> email_data.subject,
     sender |-> email_data.sender,
     summary |-> "Email from sender regarding: subject",
     action_items |-> IF email_data.has_keyword
                      THEN <<"Review email content for specific actions needed">>
                      ELSE <<>>,
     priority |-> "Medium"]

\* summarize_email: every exception of the AI path ends in the fallback
summarize_email(email_data, outcome) ==
    IF outcome.kind = "return" THEN AISummary(email_data, outcome.parsed)
    ELSE _create_fallback_summary(email_data)

\* the call of a run of the program
batch_summarize_emails(emails) ==
    /\ bpc = "idle"
    /\ bpc' = "running"
    /\ bemails' = emails
    /\ bi' = 0
    /\ bcalls' = <<>>
    /\ bsummaries' = <<>>

\* mutant: an email whose AI call failed gets no summary
BatchIteration_Skip(outcome) ==
    /\ bpc = "running"
    /\ bi < Len(bemails)
    /\ bcalls' = Append(bcalls, outcome)
    /\ bsummaries' = IF outcome.kind = "return"
                     THEN Append(bsummaries, summarize_email(bemails[bi + 1], outcome))
                     ELSE bsummaries
    /\ bi' = bi + 1
    /\ UNCHANGED <<bemails, bpc>>

\* one iteration of the loop: summarize_email returns a summary (the AI one
\* or the fallback), which is appended
BatchIteration(outcome) ==
    /\ bpc = "running"
    /\ bi < Len(bemails)
    /\ bcalls' = Append(bcalls, outcome)
    /\ bsummaries' = Append(bsummaries, summarize_email(bemails[bi + 1], outcome))
    /\ bi' = bi + 1
    /\ UNCHANGED <<bemails, bpc>>

\* the loop is over: return summaries
BatchReturn ==
    /\ bpc = "running"
    /\ bi = Len(bemails)
    /\ bpc' = "returned"
    /\ UNCHANGED <<bemails, bi, bcalls, bsummaries>>

BatchNext ==
    /\ \/ \E emails \in EmailBatches : batch_summarize_emails(emails)
       \/ \E outcome \in SummaryOutcomes : BatchIteration(outcome)
       \/ BatchReturn
    /\ UNCHANGED <<retryVars, yamlVars, storeVars, transcriptVars, fetchVars, runVars, permVars, dateVars, raceVars, providerVars, idsVars, authVars>>

BatchInit ==
    /\ rcfg = IdleRetryConfig
    /\ rpc = "returned"
    /\ attempt = 0
    /\ calls = <<>>
    /\ rout = [kind |-> "none"]
    /\ slept = <<>>
    /\ files = [d \in Dates |-> NoFile]
    /\ ylast = YLastNone
    /\ cfile = Absent
    /\ backups = {}
    /\ manager = FALSE
    /\ slast = SLastNone
    /\ tfile = NoFile
    /\ tsummarizer = FALSE
    /\ tai = [kind |-> "none"]
    /\ tout = [kind |-> "none"]
    /\ bemails = <<>>
    /\ bpc = "idle"
    /\ bi = 0
    /\ bcalls = <<>>
    /\ bsummaries = <<>>
    /\ fids = <<>>
    /\ fpc = "idle"
    /\ fi = 0
    /\ fcalls = <<>>
    /\ femails = <<>>
    /\ fout = "none"
    /\ pargs = <<>>
    /\ ppc = "idle"
    /\ pquery = [kind |-> "none"]
    /\ plog = [error |-> "none"]
    /\ ptranscript = "none"
    /\ pexit = {}
    /\ modes = [k \in {"token", "config", "summary", "transcript"} |-> {"none"}]
    /\ umask = {}
    /\ wlast = [kind |-> "none"]
    /\ dstr = <<>>
    /\ dlast = [operator |-> "none"]
    /\ lfile = NoFile
    /\ lstart = NoFile
    /\ lbatch = <<>>
    /\ lpc = <<>>
    /\ lread = <<>>
    /\ aprovider = "none"
    /\ aresponses = <<>>
    /\ gmax = 0
    /\ gpc = "idle"
    /\ gouter = 0
    /\ ginner = 0
    /\ gn = 0
    /\ gtoken = None
    /\ gcalls = <<>>
    /\ gtotal = 0
    /\ gallretry = TRUE
    /\ gout = [kind |-> "none"]
    /\ kstart = [kind |-> "none"]
    /\ kfile = "none"
    /\ kargs = [headless |-> FALSE]
    /\ kpc = "idle"
    /\ kcreds = [none |-> TRUE]
    /\ ksteps = {}
    /\ kout = [exc |-> "none"]

SpecBatch == BatchInit /\ [][BatchNext]_vars

(***************************************************************************)
(* Bulk fetch (EmailFetcher.fetch_emails_with_query): one run of the body  *)
(* of the method; the listing of the ids comes first, then one call of     *)
(* get_email_content per id.                                               *)
(***************************************************************************)

MaxMessages == 3        \* most message ids listed for a query

MessageIds == {"msg1", "msg2", "msg3"}
IdLists == SeqsUpTo(MessageIds, MaxMessages)

\* how get_email_content ends: the email dictionary, None for a message
\* that is gone (404), or the error left by its retry wrapper
HydrateOutcomes ==
    {[kind |-> "content"], [kind |-> "none"],
     [kind |-> "raise", exc |-> "RetryableError"],
     [kind |-> "raise", exc |-> "NonRetryableError"]}

\* the dictionary get_email_content returns for an id
EmailContent(message_id) == [message_id |-> message_id]

\* the query does not pass validate_gmail_query
FetchInvalidQuery ==
    /\ fpc = "idle"
    /\ fpc' = "raised"
    /\ fout' = "QueryValidationError"
    /\ UNCHANGED <<fids, fi, fcalls, femails>>

\* _get_message_ids raises: the error is re-raised
FetchListFails(exc) ==
    /\ fpc = "idle"
    /\ fpc' = "raised"
    /\ fout' = exc
    /\ UNCHANGED <<fids, fi, fcalls, femails>>

\* _get_message_ids returns the ids; an empty list is returned at once
FetchList(message_ids) ==
    /\ fpc = "idle"
    /\ fids' = message_ids
    /\ fpc' = IF message_ids = <<>> THEN "returned" ELSE "running"
    /\ UNCHANGED <<fi, fcalls, femails, fout>>

\* mutant: the error of one message is propagated
FetchIteration_Propagate(outcome) ==
    /\ fpc = "running"
    /\ fi < Len(fids)
    /\ fcalls' = Append(fcalls, outcome)
    /\ femails' = IF outcome.kind = "content"
                  THEN Append(femails, EmailContent(fids[fi + 1])) ELSE femails
    /\ fi' = fi + 1
    /\ fpc' = IF outcome.kind = "raise" THEN "raised" ELSE fpc
    /\ fout' = IF outcome.kind = "raise" THEN outcome.exc ELSE fout
    /\ UNCHANGED fids

\* one iteration of the loop: the content is appended; None and errors
\* are skipped
FetchIteration(outcome) ==
    /\ fpc = "running"
    /\ fi < Len(fids)
    /\ fcalls' = Append(fcalls, outcome)
    /\ femails' = IF outcome.kind = "content"
                  THEN Append(femails, EmailContent(fids[fi + 1])) ELSE femails
    /\ fi' = fi + 1
    /\ UNCHANGED <<fids, fpc, fout>>

\* the loop is over: return emails
FetchReturn ==
    /\ fpc = "running"
    /\ fi = Len(fids)
    /\ fpc' = "returned"
    /\ UNCHANGED <<fids, fi, fcalls, femails, fout>>

fetch_emails_with_query ==
    \/ FetchInvalidQuery
    \/ \E exc \in {"RetryableError", "NonRetryableError"} : FetchListFails(exc)
    \/ \E message_ids \in IdLists : FetchList(message_ids)
    \/ \E outcome \in HydrateOutcomes : FetchIteration(outcome)
    \/ FetchReturn

FetchNext ==
    /\ fetch_emails_with_query
    /\ UNCHANGED <<retryVars, yamlVars, storeVars, transcriptVars, batchVars, runVars, permVars, dateVars, raceVars, providerVars, idsVars, authVars>>

FetchInit ==
    /\ rcfg = IdleRetryConfig
    /\ rpc = "returned"
    /\ attempt = 0
    /\ calls = <<>>
    /\ rout = [kind |-> "none"]
    /\ slept = <<>>
    /\ files = [d \in Dates |-> NoFile]
    /\ ylast = YLastNone
    /\ cfile = Absent
    /\ backups = {}
    /\ manager = FALSE
    /\ slast = SLastNone
    /\ tfile = NoFile
    /\ tsummarizer = FALSE
    /\ tai = [kind |-> "none"]
    /\ tout = [kind |-> "none"]
    /\ bemails = <<>>
    /\ bpc = "idle"
    /\ bi = 0
    /\ bcalls = <<>>
    /\ bsummaries = <<>>
    /\ fids = <<>>
    /\ fpc = "idle"
    /\ fi = 0
    /\ fcalls = <<>>
    /\ femails = <<>>
    /\ fout = "none"
    /\ pargs = <<>>
    /\ ppc = "idle"
    /\ pquery = [kind |-> "none"]
    /\ plog = [error |-> "none"]
    /\ ptranscript = "none"
    /\ pexit = {}
    /\ modes = [k \in {"token", "config", "summary", "transcript"} |-> {"none"}]
    /\ umask = {}
    /\ wlast = [kind |-> "none"]
    /\ dstr = <<>>
    /\ dlast = [operator |-> "none"]
    /\ lfile = NoFile
    /\ lstart = NoFile
    /\ lbatch = <<>>
    /\ lpc = <<>>
    /\ lread = <<>>
    /\ aprovider = "none"
    /\ aresponses = <<>>
    /\ gmax = 0
    /\ gpc = "idle"
    /\ gouter = 0
    /\ ginner = 0
    /\ gn = 0
    /\ gtoken = None
    /\ gcalls = <<>>
    /\ gtotal = 0
    /\ gallretry = TRUE
    /\ gout = [kind |-> "none"]
    /\ kstart = [kind |-> "none"]
    /\ kfile = "none"
    /\ kargs = [headless |-> FALSE]
    /\ kpc = "idle"
    /\ kcreds = [none |-> TRUE]
    /\ ksteps = {}
    /\ kout = [exc |-> "none"]

SpecFetch == FetchInit /\ [][FetchNext]_vars

(***************************************************************************)
(* Main pipeline (main.py, process_emails): the resolution of the search   *)
(* query over the configuration store, the stages up to the daily record,  *)
(* and the transcript stage.                                               *)
(***************************************************************************)

NoQuery == [given |-> FALSE]
GivenQuery(text) == [given |-> TRUE, text |-> text]

\* args.search_config, args.search_query (a blank one included),
\* args.no_transcript and config.enable_transcript_generation
RunArgs ==
    [search_config : Names \cup {None},
     search_query : {NoQuery, GivenQuery(<<>>), GivenQuery(<<Term("from:", "boss")>>)},
     no_transcript : BOOLEAN,
     enable_transcript_generation : BOOLEAN]

default_search_query == <<Term("is:", "unread"), Term("is:", "important")>>

\* SearchConfigManager(config_file) as a function of the file it finds:
\* the file it leaves, the backups it makes, and whether it raises
\* CorruptedConfigFileError
_ensure_config_file(file, now) ==
    IF file = Absent
    THEN [file |-> Json(DefaultConfig), made |-> {}, raised |-> FALSE]
    ELSE IF \/ file = Corrupt
            \/ /\ Get(file.data, "version", "0.0") = CONFIG_VERSION
               /\ ~Has(file.data, "configs")
         THEN [file |-> Json(DefaultConfig), made |-> {"corrupted"}, raised |-> TRUE]
         ELSE IF Get(file.data, "version", "0.0") # CONFIG_VERSION
              THEN [file |-> Json(_migrate_config_file(file.data,
                                      Get(file.data, "version", "0.0"), now)),
                    made |-> {"backup"}, raised |-> FALSE]
              ELSE [file |-> file, made |-> {}, raised |-> FALSE]

\* SearchConfig.from_dict succeeds
from_dict_ok(config_dict) ==
    {"created_at", "name", "query", "description"} \subseteq DOMAIN config_dict

\* the names list_configs returns
ListedNames(file) ==
    {n \in DOMAIN file.data["configs"] : from_dict_ok(file.data["configs"][n])}

QueryResolved(kind, query, found) ==
    /\ ppc' = "fetch"
    /\ pquery' = [kind |-> kind, query |-> query]
    /\ plog' = [error |-> "none", file |-> cfile, found |-> found]
    /\ UNCHANGED pexit

\* determine_search_query raises ValueError: process_emails returns 1
QueryFails(error, available) ==
    /\ ppc' = "exited"
    /\ pexit' = {1}
    /\ plog' = [error |-> error, file |-> cfile, available |-> available]
    /\ UNCHANGED pquery

\* --search-query given and not blank: it is used; validating it builds a
\* manager, whose errors are only logged
DetermineCustom(now) ==
    /\ pargs.search_query.given
    /\ pargs.search_query.text # <<>>
    /\ cfile' = _ensure_config_file(cfile, now).file
    /\ backups' = backups \cup _ensure_config_file(cfile, now).made
    /\ QueryResolved("custom", pargs.search_query.text, "none")

\* --search-config given, the file is corrupted: the manager cannot be
\* built, CorruptedConfigFileError is logged and the default query is used
DetermineCorrupted(now) ==
    /\ ~(pargs.search_query.given /\ pargs.search_query.text # <<>>)
    /\ pargs.search_config # None
    /\ _ensure_config_file(cfile, now).raised
    /\ cfile' = _ensure_config_file(cfile, now).file
    /\ backups' = backups \cup _ensure_config_file(cfile, now).made
    /\ QueryResolved("default", default_search_query, "corrupted")

\* --search-config given, the name is not stored: ConfigurationNotFoundError
\* with the names of list_configs, converted to ValueError
DetermineNotFound(now) ==
    /\ ~(pargs.search_query.given /\ pargs.search_query.text # <<>>)
    /\ pargs.search_config # None
    /\ ~_ensure_config_file(cfile, now).raised
    /\ pargs.search_config \notin DOMAIN _ensure_config_file(cfile, now).file.data["configs"]
    /\ cfile' = _ensure_config_file(cfile, now).file
    /\ backups' = backups \cup _ensure_config_file(cfile, now).made
    /\ QueryFails("not_found", ListedNames(_ensure_config_file(cfile, now).file))

\* --search-config given, the stored entry is not a valid configuration:
\* InvalidConfigurationError, converted to ValueError
DetermineInvalid(now) ==
    /\ ~(pargs.search_query.given /\ pargs.search_query.text # <<>>)
    /\ pargs.search_config # None
    /\ ~_ensure_config_file(cfile, now).raised
    /\ pargs.search_config \in DOMAIN _ensure_config_file(cfile, now).file.data["configs"]
    /\ ~from_dict_ok(_ensure_config_file(cfile, now).file.data["configs"][pargs.search_config])
    /\ cfile' = _ensure_config_file(cfile, now).file
    /\ backups' = backups \cup _ensure_config_file(cfile, now).made
    /\ QueryFails("invalid", {})

\* --search-config given and stored: its usage is counted and its query
\* is used
DetermineSaved(now) ==
    /\ ~(pargs.search_query.given /\ pargs.search_query.text # <<>>)
    /\ pargs.search_config # None
    /\ ~_ensure_config_file(cfile, now).raised
    /\ pargs.search_config \in DOMAIN _ensure_config_file(cfile, now).file.data["configs"]
    /\ from_dict_ok(_ensure_config_file(cfile, now).file.data["configs"][pargs.search_config])
    /\ LET file == _ensure_config_file(cfile, now).file
           name == pargs.search_config
       IN  /\ cfile' = Json(SetKey(file.data, "configs",
                          SetKey(file.data["configs"], name,
                                 UsedConfig(file.data["configs"][name], now))))
           /\ QueryResolved("saved", file.data["configs"][name]["query"], "found")
    /\ backups' = backups \cup _ensure_config_file(cfile, now).made

\* neither argument: the default query
DetermineDefault ==
    /\ ~(pargs.search_query.given /\ pargs.search_query.text # <<>>)
    /\ pargs.search_config = None
    /\ QueryResolved("default", default_search_query, "none")
    /\ UNCHANGED <<cfile, backups>>

determine_search_query ==
    /\ ppc = "init"
    /\ \/ \E now \in Times :
            \/ DetermineCustom(now)
            \/ DetermineCorrupted(now)
            \/ DetermineNotFound(now)
            \/ DetermineInvalid(now)
            \/ DetermineSaved(now)
       \/ DetermineDefault
    /\ UNCHANGED <<pargs, ptranscript, manager, slast>>

\* fetching, normalizing, summarizing or storing fails: exit code 1
PipelineFails ==
    /\ ppc = "fetch"
    /\ ppc' = "exited"
    /\ pexit' = {1}
    /\ UNCHANGED <<pargs, pquery, plog, ptranscript, storeVars>>

\* the daily record is written: the empty one when nothing was fetched or
\* normalized, else the summaries
PipelineWrites ==
    /\ ppc = "fetch"
    /\ ppc' = "written"
    /\ UNCHANGED <<pargs, pquery, plog, ptranscript, pexit, storeVars>>

\* how generate_transcript_for_workflow can end without a transcript: a
\* False result at each of its checks, or an exception
TranscriptFailures ==
    {"yaml_missing", "bad_date", "directory", "generator_init", "writer_init",
     "generate_error", "generate_unexpected", "empty_content", "write_error",
     "write_unexpected", "not_created", "exception"}

\* ensure_transcript_directory(config): a boolean, no exception
ensure_transcript_directory == BOOLEAN

\* mutant: a failed transcript makes the run fail
TranscriptStage_Fatal(outcome) ==
    /\ ppc = "written"
    /\ ~pargs.no_transcript
    /\ pargs.enable_transcript_generation
    /\ outcome = "directory" => FALSE \in ensure_transcript_directory
    /\ ptranscript' = outcome
    /\ ppc' = "exited"
    /\ pexit' = IF outcome \in TranscriptFailures THEN {1} ELSE {0}
    /\ UNCHANGED <<pargs, pquery, plog, storeVars>>

\* the transcript stage runs: whatever it does, the run returns 0
TranscriptStage(outcome) ==
    /\ ppc = "written"
    /\ ~pargs.no_transcript
    /\ pargs.enable_transcript_generation
    /\ outcome = "directory" => FALSE \in ensure_transcript_directory
    /\ ptranscript' = outcome
    /\ ppc' = "exited"
    /\ pexit' = {0}
    /\ UNCHANGED <<pargs, pquery, plog, storeVars>>

\* --no-transcript, or transcripts disabled in the configuration
TranscriptSkipped ==
    /\ ppc = "written"
    /\ pargs.no_transcript \/ ~pargs.enable_transcript_generation
    /\ ptranscript' = "skipped"
    /\ ppc' = "exited"
    /\ pexit' = {0}
    /\ UNCHANGED <<pargs, pquery, plog, storeVars>>

process_emails ==
    \/ determine_search_query
    \/ PipelineFails
    \/ PipelineWrites
    \/ \E outcome \in TranscriptFailures \cup {"ok"} : TranscriptStage(outcome)
    \/ TranscriptSkipped

RunNext ==
    /\ process_emails
    /\ UNCHANGED <<retryVars, yamlVars, transcriptVars, batchVars, fetchVars, permVars, dateVars, raceVars, providerVars, idsVars, authVars>>

\* the components are built; any configuration file on disk
RunInit ==
    /\ rcfg = IdleRetryConfig
    /\ rpc = "returned"
    /\ attempt = 0
    /\ calls = <<>>
    /\ rout = [kind |-> "none"]
    /\ slept = <<>>
    /\ files = [d \in Dates |-> NoFile]
    /\ ylast = YLastNone
    /\ cfile \in EditedFiles
    /\ backups = {}
    /\ manager = FALSE
    /\ slast = SLastNone
    /\ tfile = NoFile
    /\ tsummarizer = FALSE
    /\ tai = [kind |-> "none"]
    /\ tout = [kind |-> "none"]
    /\ bemails = <<>>
    /\ bpc = "idle"
    /\ bi = 0
    /\ bcalls = <<>>
    /\ bsummaries = <<>>
    /\ fids = <<>>
    /\ fpc = "idle"
    /\ fi = 0
    /\ fcalls = <<>>
    /\ femails = <<>>
    /\ fout = "none"
    /\ pargs \in RunArgs
    /\ ppc = "init"
    /\ pquery = [kind |-> "none"]
    /\ plog = [error |-> "none"]
    /\ ptranscript = "none"
    /\ pexit = {}
    /\ modes = [k \in {"token", "config", "summary", "transcript"} |-> {"none"}]
    /\ umask = {}
    /\ wlast = [kind |-> "none"]
    /\ dstr = <<>>
    /\ dlast = [operator |-> "none"]
    /\ lfile = NoFile
    /\ lstart = NoFile
    /\ lbatch = <<>>
    /\ lpc = <<>>
    /\ lread = <<>>
    /\ aprovider = "none"
    /\ aresponses = <<>>
    /\ gmax = 0
    /\ gpc = "idle"
    /\ gouter = 0
    /\ ginner = 0
    /\ gn = 0
    /\ gtoken = None
    /\ gcalls = <<>>
    /\ gtotal = 0
    /\ gallretry = TRUE
    /\ gout = [kind |-> "none"]
    /\ kstart = [kind |-> "none"]
    /\ kfile = "none"
    /\ kargs = [headless |-> FALSE]
    /\ kpc = "idle"
    /\ kcreds = [none |-> TRUE]
    /\ ksteps = {}
    /\ kout = [exc |-> "none"]

SpecRun == RunInit /\ [][RunNext]_vars

(***************************************************************************)
(* File permissions: the four writers of token.json, search_configs.json, *)
(* the daily summary and the transcript                                    *)
(***************************************************************************)
FileKinds == {"token", "config", "summary", "transcript"}

\* permission bits of a regular file
PermBits == {"ur", "uw", "gr", "gw", "or", "ow"}

\* no such file
NoMode == {"none"}

\* mode 0o600
OwnerOnly == {"ur", "uw"}

\* umask 022, 077 and 002
Umasks == {{"gw", "ow"}, {"gr", "gw", "or", "ow"}, {"ow"}}

\* open(path, 'w'): a new file gets 0o666 less the umask, an existing one
\* keeps its bits
OpenForWrite(mode, mask) == IF mode = NoMode THEN PermBits \ mask ELSE mode

WriteOutcomes == {"ok", "open_fails", "chmod_fails"}

Wrote(kind, mode, ok) ==
    /\ modes' = [modes EXCEPT ![kind] = mode]
    /\ wlast' = [kind |-> kind, ok |-> ok]
    /\ UNCHANGED umask

\* authenticate saves the token: open, pickle.dump, os.chmod(0o600); an
\* OSError of either becomes GmailAuthError
authenticate(outcome) ==
    CASE outcome = "ok" -> Wrote("token", OwnerOnly, TRUE)
      [] outcome = "open_fails" -> Wrote("token", modes["token"], FALSE)
      [] outcome = "chmod_fails" ->
            Wrote("token", OpenForWrite(modes["token"], umask), FALSE)

\* _save_config_file: open and json.dump, nothing else
_save_config_file(outcome) ==
    CASE outcome = "ok" ->
            Wrote("config", OpenForWrite(modes["config"], umask), TRUE)
      [] outcome = "open_fails" -> Wrote("config", modes["config"], FALSE)
      [] outcome = "chmod_fails" -> FALSE

\* _write_yaml_file: open, yaml.dump, os.chmod(0o600) whose OSError is only
\* logged
_write_yaml_file(outcome) ==
    CASE outcome = "ok" -> Wrote("summary", OwnerOnly, TRUE)
      [] outcome = "open_fails" -> Wrote("summary", modes["summary"], FALSE)
      [] outcome = "chmod_fails" ->
            Wrote("summary", OpenForWrite(modes["summary"], umask), TRUE)

\* write_transcript: open, write, os.chmod(0o600) whose OSError is only
\* logged
write_transcript(outcome) ==
    CASE outcome = "ok" -> Wrote("transcript", OwnerOnly, TRUE)
      [] outcome = "open_fails" -> Wrote("transcript", modes["transcript"], FALSE)
      [] outcome = "chmod_fails" ->
            Wrote("transcript", OpenForWrite(modes["transcript"], umask), TRUE)

PermNext ==
    /\ \E outcome \in WriteOutcomes :
          \/ authenticate(outcome)
          \/ _save_config_file(outcome)
          \/ _write_yaml_file(outcome)
          \/ write_transcript(outcome)
    /\ UNCHANGED <<retryVars, yamlVars, storeVars, transcriptVars, batchVars, fetchVars, runVars, dateVars, raceVars, providerVars, idsVars, authVars>>

PermInit ==
    /\ rcfg = IdleRetryConfig
    /\ rpc = "returned"
    /\ attempt = 0
    /\ calls = <<>>
    /\ rout = [kind |-> "none"]
    /\ slept = <<>>
    /\ files = [d \in Dates |-> NoFile]
    /\ ylast = YLastNone
    /\ cfile = Absent
    /\ backups = {}
    /\ manager = FALSE
    /\ slast = SLastNone
    /\ tfile = NoFile
    /\ tsummarizer = FALSE
    /\ tai = [kind |-> "none"]
    /\ tout = [kind |-> "none"]
    /\ bemails = <<>>
    /\ bpc = "idle"
    /\ bi = 0
    /\ bcalls = <<>>
    /\ bsummaries = <<>>
    /\ fids = <<>>
    /\ fpc = "idle"
    /\ fi = 0
    /\ fcalls = <<>>
    /\ femails = <<>>
    /\ fout = "none"
    /\ pargs = <<>>
    /\ ppc = "idle"
    /\ pquery = [kind |-> "none"]
    /\ plog = [error |-> "none"]
    /\ ptranscript = "none"
    /\ pexit = {}
    /\ modes \in [FileKinds -> {NoMode, OwnerOnly, PermBits \ {"gw", "ow"}}]
    /\ umask \in Umasks
    /\ wlast = [kind |-> "none"]
    /\ dstr = <<>>
    /\ dlast = [operator |-> "none"]
    /\ lfile = NoFile
    /\ lstart = NoFile
    /\ lbatch = <<>>
    /\ lpc = <<>>
    /\ lread = <<>>
    /\ aprovider = "none"
    /\ aresponses = <<>>
    /\ gmax = 0
    /\ gpc = "idle"
    /\ gouter = 0
    /\ ginner = 0
    /\ gn = 0
    /\ gtoken = None
    /\ gcalls = <<>>
    /\ gtotal = 0
    /\ gallretry = TRUE
    /\ gout = [kind |-> "none"]
    /\ kstart = [kind |-> "none"]
    /\ kfile = "none"
    /\ kargs = [headless |-> FALSE]
    /\ kpc = "idle"
    /\ kcreds = [none |-> TRUE]
    /\ ksteps = {}
    /\ kout = [exc |-> "none"]

SpecPerm == PermInit /\ [][PermNext]_vars

(***************************************************************************)
(* Query validator: the date check of after: and before:                   *)
(***************************************************************************)
DateYears == {1900, 2000, 2023, 2024}
DateMonths == 0..13
DateDays == 0..32

\* the text of a date: zero-padded year, month and day around sep
FormatDate(year, month, day, sep) ==
    << DigitChars[(year \div 1000) + 1], DigitChars[((year \div 100) % 10) + 1],
       DigitChars[((year \div 10) % 10) + 1], DigitChars[(year % 10) + 1], sep,
       DigitChars[(month \div 10) + 1], DigitChars[(month % 10) + 1], sep,
       DigitChars[(day \div 10) + 1], DigitChars[(day % 10) + 1] >>

\* "01-01-2024", "2024-01/01", "2024-1-01", "2024.01.01" and ""
MalformedDates ==
    { <<"0", "1", "-", "0", "1", "-", "2", "0", "2", "4">>,
      <<"2", "0", "2", "4", "-", "0", "1", "/", "0", "1">>,
      <<"2", "0", "2", "4", "-", "1", "-", "0", "1">>,
      <<"2", "0", "2", "4", ".", "0", "1", ".", "0", "1">>,
      <<>> }

DateStrings ==
    {FormatDate(y, m, d, sep) : y \in DateYears, m \in DateMonths, d \in DateDays,
                                sep \in {"-", "/"}} \cup MalformedDates

\* validate_query of the one-term query operator:date_str
ValidateDate(operator) ==
    /\ dlast.operator = "none"
    /\ dlast' = [operator |-> operator, ok |-> validate_query(<<Term(operator, dstr)>>)]
    /\ UNCHANGED dstr

DateNext ==
    /\ \E operator \in {"after:", "before:"} : ValidateDate(operator)
    /\ UNCHANGED <<retryVars, yamlVars, storeVars, transcriptVars, batchVars, fetchVars, runVars, permVars, raceVars, providerVars, idsVars, authVars>>

DateInit ==
    /\ rcfg = IdleRetryConfig
    /\ rpc = "returned"
    /\ attempt = 0
    /\ calls = <<>>
    /\ rout = [kind |-> "none"]
    /\ slept = <<>>
    /\ files = [d \in Dates |-> NoFile]
    /\ ylast = YLastNone
    /\ cfile = Absent
    /\ backups = {}
    /\ manager = FALSE
    /\ slast = SLastNone
    /\ tfile = NoFile
    /\ tsummarizer = FALSE
    /\ tai = [kind |-> "none"]
    /\ tout = [kind |-> "none"]
    /\ bemails = <<>>
    /\ bpc = "idle"
    /\ bi = 0
    /\ bcalls = <<>>
    /\ bsummaries = <<>>
    /\ fids = <<>>
    /\ fpc = "idle"
    /\ fi = 0
    /\ fcalls = <<>>
    /\ femails = <<>>
    /\ fout = "none"
    /\ pargs = <<>>
    /\ ppc = "idle"
    /\ pquery = [kind |-> "none"]
    /\ plog = [error |-> "none"]
    /\ ptranscript = "none"
    /\ pexit = {}
    /\ modes = [k \in FileKinds |-> NoMode]
    /\ umask = {}
    /\ wlast = [kind |-> "none"]
    /\ dstr \in DateStrings
    /\ dlast = [operator |-> "none"]
    /\ lfile = NoFile
    /\ lstart = NoFile
    /\ lbatch = <<>>
    /\ lpc = <<>>
    /\ lread = <<>>
    /\ aprovider = "none"
    /\ aresponses = <<>>
    /\ gmax = 0
    /\ gpc = "idle"
    /\ gouter = 0
    /\ ginner = 0
    /\ gn = 0
    /\ gtoken = None
    /\ gcalls = <<>>
    /\ gtotal = 0
    /\ gallretry = TRUE
    /\ gout = [kind |-> "none"]
    /\ kstart = [kind |-> "none"]
    /\ kfile = "none"
    /\ kargs = [headless |-> FALSE]
    /\ kpc = "idle"
    /\ kcreds = [none |-> TRUE]
    /\ ksteps = {}
    /\ kout = [exc |-> "none"]

SpecDate == DateInit /\ [][DateNext]_vars

(***************************************************************************)
(* Two pipeline runs storing into the same day's record: the steps of      *)
(* write_daily_summary taken one at a time, with no lock between them.     *)
(* A write of the file is taken as one step.                               *)
(***************************************************************************)
Writers == {1, 2}

\* the day's file before the runs: none, an empty day's, one with an email
StartFiles ==
    {NoFile, EmptyData("2024-01-15", "t1"),
     NewSummaryData(<<CHOOSE s \in Summaries : s.priority = "High">>, "2024-01-15", "t1")}

\* file_path.exists(): which branch of write_daily_summary the run takes
RaceExists(p) ==
    /\ lpc[p] = "start"
    /\ lpc' = [lpc EXCEPT ![p] = IF lfile = NoFile THEN "create" ELSE "append"]
    /\ UNCHANGED <<lfile, lstart, lbatch, lread>>

\* append_to_existing_summary loads the record
RaceLoad(p) ==
    /\ lpc[p] = "append"
    /\ lread' = [lread EXCEPT ![p] = lfile]
    /\ lpc' = [lpc EXCEPT ![p] = "loaded"]
    /\ UNCHANGED <<lfile, lstart, lbatch>>

\* append_to_existing_summary writes the loaded record, extended
RaceWriteAppended(p, now) ==
    /\ lpc[p] = "loaded"
    /\ lfile' = AppendedData(lread[p], lbatch[p], now)
    /\ lpc' = [lpc EXCEPT ![p] = "done"]
    /\ UNCHANGED <<lstart, lbatch, lread>>

\* _create_new_summary_file writes a record of its own summaries
RaceWriteCreated(p, now) ==
    /\ lpc[p] = "create"
    /\ lfile' = NewSummaryData(lbatch[p], "2024-01-15", now)
    /\ lpc' = [lpc EXCEPT ![p] = "done"]
    /\ UNCHANGED <<lstart, lbatch, lread>>

RaceNext ==
    /\ \E p \in Writers :
          \/ RaceExists(p)
          \/ RaceLoad(p)
          \/ \E now \in Times : RaceWriteAppended(p, now)
          \/ \E now \in Times : RaceWriteCreated(p, now)
    /\ UNCHANGED <<retryVars, yamlVars, storeVars, transcriptVars, batchVars, fetchVars, runVars, permVars, dateVars, providerVars, idsVars, authVars>>

RaceInit ==
    /\ rcfg = IdleRetryConfig
    /\ rpc = "returned"
    /\ attempt = 0
    /\ calls = <<>>
    /\ rout = [kind |-> "none"]
    /\ slept = <<>>
    /\ files = [d \in Dates |-> NoFile]
    /\ ylast = YLastNone
    /\ cfile = Absent
    /\ backups = {}
    /\ manager = FALSE
    /\ slast = SLastNone
    /\ tfile = NoFile
    /\ tsummarizer = FALSE
    /\ tai = [kind |-> "none"]
    /\ tout = [kind |-> "none"]
    /\ bemails = <<>>
    /\ bpc = "idle"
    /\ bi = 0
    /\ bcalls = <<>>
    /\ bsummaries = <<>>
    /\ fids = <<>>
    /\ fpc = "idle"
    /\ fi = 0
    /\ fcalls = <<>>
    /\ femails = <<>>
    /\ fout = "none"
    /\ pargs = <<>>
    /\ ppc = "idle"
    /\ pquery = [kind |-> "none"]
    /\ plog = [error |-> "none"]
    /\ ptranscript = "none"
    /\ pexit = {}
    /\ modes = [k \in FileKinds |-> NoMode]
    /\ umask = {}
    /\ wlast = [kind |-> "none"]
    /\ dstr = <<>>
    /\ dlast = [operator |-> "none"]
    /\ lfile \in StartFiles
    /\ lstart = lfile
    /\ lbatch \in [Writers -> Batches \ {<<>>}]
    /\ lpc = [p \in Writers |-> "start"]
    /\ lread = [p \in Writers |-> NoFile]
    /\ aprovider = "none"
    /\ aresponses = <<>>
    /\ gmax = 0
    /\ gpc = "idle"
    /\ gouter = 0
    /\ ginner = 0
    /\ gn = 0
    /\ gtoken = None
    /\ gcalls = <<>>
    /\ gtotal = 0
    /\ gallretry = TRUE
    /\ gout = [kind |-> "none"]
    /\ kstart = [kind |-> "none"]
    /\ kfile = "none"
    /\ kargs = [headless |-> FALSE]
    /\ kpc = "idle"
    /\ kcreds = [none |-> TRUE]
    /\ ksteps = {}
    /\ kout = [exc |-> "none"]

SpecRace == RaceInit /\ [][RaceNext]_vars

(***************************************************************************)
(* One summarization request: _call_openai_api or _call_claude_api under   *)
(* their retry decorator, with handle_ai_api_error converting whatever the *)
(* body of the method raises.                                              *)
(***************************************************************************)
Providers == {"openai", "claude"}

\* the decorator's configuration of both methods
AIRetryConfig == [max_attempts |-> 3, base_delay |-> 2, max_delay |-> 120, jitter |-> TRUE]

\* what the provider's client does with a request: a response whose text is
\* a summary, is empty, or is only white space; or an exception, given by
\* its status_code (if it has one) and the indicator words in its message
ProviderAnswers ==
    { [kind |-> "response", text |-> "summary"],
      [kind |-> "response", text |-> ""],
      [kind |-> "response", text |-> " "],
      [kind |-> "error", status_code |-> 429, words |-> {"rate limit", "429"}],
      [kind |-> "error", status_code |-> 401, words |-> {"authentication"}],
      [kind |-> "error", words |-> {"timeout"}] }

\* the NonRetryableError the method raises for an empty response
EmptyResponseError == [kind |-> "error", words |-> {}]

Retryable(retry_after) ==
    [kind |-> "raise", exc |-> "RetryableError", retry_after |-> retry_after]
NonRetryable == [kind |-> "raise", exc |-> "NonRetryableError", retry_after |-> NoHint]

\* the generic tail of handle_ai_api_error: network words, else the default
AIErrorDefault(exception) == Retryable(NoHint)

handle_ai_api_error(exception, provider) ==
    IF provider = "openai" /\ "status_code" \in DOMAIN exception
    THEN CASE exception.status_code = 401 -> NonRetryable
           [] exception.status_code = 429 -> Retryable(60)
           [] exception.status_code = 402 -> NonRetryable
           [] exception.status_code >= 500 -> Retryable(NoHint)
           [] OTHER -> AIErrorDefault(exception)
    ELSE IF provider = "claude"
            /\ exception.words \cap {"authentication", "api key"} # {}
    THEN NonRetryable
    ELSE IF provider = "claude" /\ exception.words \cap {"rate limit", "429"} # {}
    THEN Retryable(60)
    ELSE IF provider = "claude" /\ exception.words \cap {"quota", "billing"} # {}
    THEN NonRetryable
    ELSE AIErrorDefault(exception)

\* str.strip of the texts above
StripText(text) == IF text = " " THEN "" ELSE text

\* the body of _call_openai_api / _call_claude_api for one answer: the
\* emptiness test, and except Exception around the request and the test
ProviderCall(provider, answer) ==
    IF answer.kind = "error" THEN handle_ai_api_error(answer, provider)
    ELSE IF answer.text = "" THEN handle_ai_api_error(EmptyResponseError, provider)
    ELSE [kind |-> "ok", value |-> StripText(answer.text)]

\* one attempt of the decorated method
ProviderAttempt(answer) ==
    /\ rpc = "running"
    /\ attempt < rcfg.max_attempts
    /\ aresponses' = Append(aresponses, answer)
    /\ LET o == ProviderCall(aprovider, answer)
       IN  /\ calls' = Append(calls, o)
           /\ \/ AttemptReturns(o)
              \/ AttemptNonRetryable(o)
              \/ AttemptRetryableLast(o)
              \/ AttemptRetryableSleep(o)
    /\ UNCHANGED <<rcfg, aprovider>>

ProviderNext ==
    /\ \E answer \in ProviderAnswers : ProviderAttempt(answer)
    /\ UNCHANGED <<yamlVars, storeVars, transcriptVars, batchVars, fetchVars, runVars, permVars, dateVars, raceVars, idsVars, authVars>>

ProviderInit ==
    /\ files = [d \in Dates |-> NoFile]
    /\ ylast = YLastNone
    /\ cfile = Absent
    /\ backups = {}
    /\ manager = FALSE
    /\ slast = SLastNone
    /\ tfile = NoFile
    /\ tsummarizer = FALSE
    /\ tai = [kind |-> "none"]
    /\ tout = [kind |-> "none"]
    /\ bemails = <<>>
    /\ bpc = "idle"
    /\ bi = 0
    /\ bcalls = <<>>
    /\ bsummaries = <<>>
    /\ fids = <<>>
    /\ fpc = "idle"
    /\ fi = 0
    /\ fcalls = <<>>
    /\ femails = <<>>
    /\ fout = "none"
    /\ pargs = <<>>
    /\ ppc = "idle"
    /\ pquery = [kind |-> "none"]
    /\ plog = [error |-> "none"]
    /\ ptranscript = "none"
    /\ pexit = {}
    /\ modes = [k \in FileKinds |-> NoMode]
    /\ umask = {}
    /\ wlast = [kind |-> "none"]
    /\ dstr = <<>>
    /\ dlast = [operator |-> "none"]
    /\ lfile = NoFile
    /\ lstart = NoFile
    /\ lbatch = <<>>
    /\ lpc = <<>>
    /\ lread = <<>>
    /\ rcfg = AIRetryConfig
    /\ rpc = "running"
    /\ attempt = 0
    /\ calls = <<>>
    /\ rout = [kind |-> "none"]
    /\ slept = <<>>
    /\ aprovider \in Providers
    /\ aresponses = <<>>
    /\ gmax = 0
    /\ gpc = "idle"
    /\ gouter = 0
    /\ ginner = 0
    /\ gn = 0
    /\ gtoken = None
    /\ gcalls = <<>>
    /\ gtotal = 0
    /\ gallretry = TRUE
    /\ gout = [kind |-> "none"]
    /\ kstart = [kind |-> "none"]
    /\ kfile = "none"
    /\ kargs = [headless |-> FALSE]
    /\ kpc = "idle"
    /\ kcreds = [none |-> TRUE]
    /\ ksteps = {}
    /\ kout = [exc |-> "none"]

SpecProvider == ProviderInit /\ [][ProviderNext]_vars

(***************************************************************************)
(* Listing of message ids: _get_message_ids under its retry wrapper,       *)
(* called from fetch_emails_with_query under its own.  The ids are         *)
(* counted, not named.                                                     *)
(***************************************************************************)
MaxPages == 3          \* most list calls in one run of _get_message_ids

\* the most ids one list call may ask for
GmailPageMax == 500

MaxResultsValues == {1, 3, 500, 501, 1001}

PageTokens == {"p1", "p2"}

\* max_attempts of the two decorators
ListMaxAttempts == [outer |-> 3, inner |-> 3]

\* mutant: every call asks for the whole total
BatchSize_Whole(max_results, so_far) == Min(GmailPageMax, max_results)

\* batch_size of the next list call
BatchSize(max_results, so_far) == Min(GmailPageMax, max_results - so_far)

\* how many ids a page of a call for batch_size ids can hold
PageSizes(batch_size) == {0, 1, batch_size}

\* a list call answers with got ids and next_page, its nextPageToken: the
\* loop goes on while a token came back and ids are still wanted
ListPage(got, next_page) ==
    /\ gpc = "listing"
    /\ gn < gmax
    /\ Len(gcalls) < MaxPages
    /\ got \in PageSizes(BatchSize(gmax, gn))
    /\ gcalls' = Append(gcalls, [maxResults |-> BatchSize(gmax, gn), so_far |-> gn,
                                 pageToken |-> gtoken, got |-> got,
                                 nextPageToken |-> next_page])
    /\ gn' = gn + got
    /\ gtoken' = next_page
    /\ gtotal' = gtotal + 1
    /\ gallretry' = FALSE
    /\ IF next_page = None \/ gn + got >= gmax
       THEN gpc' = "returned" /\ gout' = [kind |-> "ids", n |-> Min(gn + got, gmax)]
       ELSE UNCHANGED <<gpc, gout>>
    /\ UNCHANGED <<gmax, gouter, ginner>>

\* a list call fails with an error that converts to RetryableError: the
\* wrapper of _get_message_ids runs it again from the start; on its last
\* attempt it raises, and the wrapper of fetch_emails_with_query runs the
\* fetch again, or raises on its own last attempt
ListFailsRetryable ==
    /\ gpc = "listing"
    /\ gn < gmax
    /\ gtotal' = gtotal + 1
    /\ gn' = 0
    /\ gtoken' = None
    /\ gcalls' = <<>>
    /\ IF ginner < ListMaxAttempts.inner - 1
       THEN ginner' = ginner + 1 /\ UNCHANGED <<gouter, gpc, gout>>
       ELSE IF gouter < ListMaxAttempts.outer - 1
       THEN ginner' = 0 /\ gouter' = gouter + 1 /\ UNCHANGED <<gpc, gout>>
       ELSE /\ gpc' = "raised"
            /\ gout' = [kind |-> "raise", exc |-> "RetryableError"]
            /\ UNCHANGED <<ginner, gouter>>
    /\ UNCHANGED <<gmax, gallretry>>

\* a list call fails with an error that converts to NonRetryableError: both
\* wrappers raise it at once
ListFailsNonRetryable ==
    /\ gpc = "listing"
    /\ gn < gmax
    /\ gtotal' = gtotal + 1
    /\ gallretry' = FALSE
    /\ gpc' = "raised"
    /\ gout' = [kind |-> "raise", exc |-> "NonRetryableError"]
    /\ UNCHANGED <<gmax, gouter, ginner, gn, gtoken, gcalls>>

_get_message_ids ==
    \/ \E got \in PageSizes(BatchSize(gmax, gn)), next_page \in PageTokens \cup {None} :
          ListPage(got, next_page)
    \/ ListFailsRetryable
    \/ ListFailsNonRetryable

IdsNext ==
    /\ _get_message_ids
    /\ UNCHANGED <<retryVars, yamlVars, storeVars, transcriptVars, batchVars, fetchVars, runVars, permVars, dateVars, raceVars, providerVars, authVars>>

IdsInit ==
    /\ rcfg = IdleRetryConfig
    /\ rpc = "returned"
    /\ attempt = 0
    /\ calls = <<>>
    /\ rout = [kind |-> "none"]
    /\ slept = <<>>
    /\ files = [d \in Dates |-> NoFile]
    /\ ylast = YLastNone
    /\ cfile = Absent
    /\ backups = {}
    /\ manager = FALSE
    /\ slast = SLastNone
    /\ tfile = NoFile
    /\ tsummarizer = FALSE
    /\ tai = [kind |-> "none"]
    /\ tout = [kind |-> "none"]
    /\ bemails = <<>>
    /\ bpc = "idle"
    /\ bi = 0
    /\ bcalls = <<>>
    /\ bsummaries = <<>>
    /\ fids = <<>>
    /\ fpc = "idle"
    /\ fi = 0
    /\ fcalls = <<>>
    /\ femails = <<>>
    /\ fout = "none"
    /\ pargs = <<>>
    /\ ppc = "idle"
    /\ pquery = [kind |-> "none"]
    /\ plog = [error |-> "none"]
    /\ ptranscript = "none"
    /\ pexit = {}
    /\ modes = [k \in FileKinds |-> NoMode]
    /\ umask = {}
    /\ wlast = [kind |-> "none"]
    /\ dstr = <<>>
    /\ dlast = [operator |-> "none"]
    /\ lfile = NoFile
    /\ lstart = NoFile
    /\ lbatch = <<>>
    /\ lpc = <<>>
    /\ lread = <<>>
    /\ aprovider = "none"
    /\ aresponses = <<>>
    /\ gmax \in MaxResultsValues
    /\ gpc = "listing"
    /\ gouter = 0
    /\ ginner = 0
    /\ gn = 0
    /\ gtoken = None
    /\ gcalls = <<>>
    /\ gtotal = 0
    /\ gallretry = TRUE
    /\ gout = [kind |-> "none"]
    /\ kstart = [kind |-> "none"]
    /\ kfile = "none"
    /\ kargs = [headless |-> FALSE]
    /\ kpc = "idle"
    /\ kcreds = [none |-> TRUE]
    /\ ksteps = {}
    /\ kout = [exc |-> "none"]

SpecIds == IdsInit /\ [][IdsNext]_vars

(***************************************************************************)
(* authenticate (auth/gmail_auth.py): load the token, check it, refresh or *)
(* authorize, save the token.  The token file's mode is modes["token"].    *)
(***************************************************************************)
NoCreds == [none |-> TRUE]

\* what pickle.load of the token file gives: a credential, or an exception
TokenCredentials ==
    [valid |-> [valid |-> TRUE, expired |-> FALSE, refresh_token |-> TRUE],
     expired_refreshable |-> [valid |-> FALSE, expired |-> TRUE, refresh_token |-> TRUE],
     expired |-> [valid |-> FALSE, expired |-> TRUE, refresh_token |-> FALSE]]

\* a file pickle.load fails on: with PickleError or EOFError, with OSError,
\* or with another exception (ValueError, ModuleNotFoundError)
TokenFailures == {"PickleError", "OSError", "ValueError"}

TokenKinds == DOMAIN TokenCredentials \cup TokenFailures \cup {"absent"}

AuthRaises(step, cause, exc, advice) ==
    /\ kpc' = "raised"
    /\ kout' = [step |-> step, cause |-> cause, exc |-> exc, advice |-> advice]

\* no token file
AuthNoToken ==
    /\ kpc = "load"
    /\ kfile = "absent"
    /\ kpc' = "check"
    /\ UNCHANGED <<kfile, kcreds, ksteps, kout, modes>>

\* the token file is loaded
AuthLoadToken ==
    /\ kpc = "load"
    /\ kfile \in DOMAIN TokenCredentials
    /\ kcreds' = TokenCredentials[kfile]
    /\ kpc' = "check"
    /\ UNCHANGED <<kfile, ksteps, kout, modes>>

\* except (pickle.PickleError, EOFError, OSError): the file is removed,
\* unless os.remove fails too, and creds stays None
AuthLoadCorrupted(removed) ==
    /\ kpc = "load"
    /\ kfile \in {"PickleError", "OSError"}
    /\ IF removed
       THEN kfile' = "absent" /\ modes' = [modes EXCEPT !["token"] = NoMode]
       ELSE UNCHANGED <<kfile, modes>>
    /\ kpc' = "check"
    /\ UNCHANGED <<kcreds, ksteps, kout>>

\* except Exception: GmailAuthError
AuthLoadFails ==
    /\ kpc = "load"
    /\ kfile \in TokenFailures \ {"PickleError", "OSError"}
    /\ AuthRaises("load", kfile, "GmailAuthError", "none")
    /\ UNCHANGED <<kfile, kcreds, ksteps, modes>>

\* mutant: a valid credential is saved again before it is returned
AuthValid_Persist ==
    /\ kpc = "check"
    /\ kcreds # NoCreds
    /\ kcreds.valid
    /\ kpc' = "persist"
    /\ UNCHANGED <<kfile, kcreds, ksteps, kout, modes>>

\* creds and creds.valid: the credential is returned
AuthValid ==
    /\ kpc = "check"
    /\ kcreds # NoCreds
    /\ kcreds.valid
    /\ kpc' = "returned"
    /\ UNCHANGED <<kfile, kcreds, ksteps, kout, modes>>

RefreshOutcomes == {"ok", "invalid_grant", "network", "other"}

\* creds.refresh(Request())
AuthRefresh(outcome) ==
    /\ kpc = "check"
    /\ kcreds # NoCreds
    /\ ~kcreds.valid
    /\ kcreds.expired /\ kcreds.refresh_token
    /\ ksteps' = ksteps \cup {"refresh"}
    /\ IF outcome = "ok"
       THEN /\ kcreds' = [kcreds EXCEPT !.valid = TRUE, !.expired = FALSE]
            /\ kpc' = "persist"
            /\ UNCHANGED kout
       ELSE /\ AuthRaises("refresh", outcome, "GmailAuthError",
                          IF outcome = "invalid_grant" THEN "delete token" ELSE "none")
            /\ UNCHANGED kcreds
    /\ UNCHANGED <<kfile, modes>>

\* how the OAuth2 flow ends: with credentials, or with an exception whose
\* message holds one of the phrases the handler looks for, or none of them
FlowOutcomes ==
    {"ok", "could not locate runnable browser", "redirect_uri_mismatch",
     "access_denied", "other"}

\* ErrorCategory has no member ENVIRONMENT
ErrorCategories ==
    {"AUTHENTICATION", "NETWORK", "API_RATE_LIMIT", "API_QUOTA", "FILE_SYSTEM",
     "VALIDATION", "UNKNOWN"}

\* the OAuth2 flow and its except Exception handler
AuthAuthorize(outcome) ==
    /\ kpc = "check"
    /\ IF kcreds = NoCreds THEN TRUE
       ELSE ~kcreds.valid /\ ~(kcreds.expired /\ kcreds.refresh_token)
    /\ IF ~kargs.credentials_file
       THEN /\ AuthRaises("authorize", "credentials file", "GmailAuthError", "none")
            /\ UNCHANGED <<kcreds, ksteps>>
       ELSE /\ ksteps' = ksteps \cup {"authorize"}
            /\ CASE outcome = "ok" ->
                     /\ kcreds' = TokenCredentials["valid"]
                     /\ kpc' = "persist"
                     /\ UNCHANGED kout
                 [] outcome = "could not locate runnable browser" /\ ~kargs.headless ->
                     /\ IF "ENVIRONMENT" \in ErrorCategories
                        THEN AuthRaises("authorize", outcome, "GmailAuthError", "use --headless")
                        ELSE AuthRaises("authorize", outcome, "AttributeError", "none")
                     /\ UNCHANGED kcreds
                 [] outcome = "redirect_uri_mismatch" ->
                     /\ AuthRaises("authorize", outcome, "GmailAuthError", "desktop application")
                     /\ UNCHANGED kcreds
                 [] OTHER ->
                     /\ AuthRaises("authorize", outcome, "GmailAuthError", "none")
                     /\ UNCHANGED kcreds
    /\ UNCHANGED <<kfile, modes>>

\* the token is saved and the credential returned, or GmailAuthError
AuthPersist(outcome) ==
    /\ kpc = "persist"
    /\ authenticate(outcome)
    /\ ksteps' = ksteps \cup {"persist"}
    /\ kfile' = IF outcome = "open_fails" THEN kfile ELSE "valid"
    /\ IF outcome = "ok"
       THEN kpc' = "returned" /\ UNCHANGED kout
       ELSE AuthRaises("persist", outcome, "GmailAuthError", "none")
    /\ UNCHANGED kcreds

AuthNext ==
    /\ \/ AuthNoToken /\ UNCHANGED <<umask, wlast>>
       \/ AuthLoadToken /\ UNCHANGED <<umask, wlast>>
       \/ \E removed \in BOOLEAN : AuthLoadCorrupted(removed) /\ UNCHANGED <<umask, wlast>>
       \/ AuthLoadFails /\ UNCHANGED <<umask, wlast>>
       \/ AuthValid /\ UNCHANGED <<umask, wlast>>
       \/ \E outcome \in RefreshOutcomes : AuthRefresh(outcome) /\ UNCHANGED <<umask, wlast>>
       \/ \E outcome \in FlowOutcomes : AuthAuthorize(outcome) /\ UNCHANGED <<umask, wlast>>
       \/ \E outcome \in WriteOutcomes : AuthPersist(outcome)
    /\ UNCHANGED <<kstart, kargs>>
    /\ UNCHANGED <<retryVars, yamlVars, storeVars, transcriptVars, batchVars, fetchVars, runVars, dateVars, raceVars, providerVars, idsVars>>

AuthInit ==
    /\ rcfg = IdleRetryConfig
    /\ rpc = "returned"
    /\ attempt = 0
    /\ calls = <<>>
    /\ rout = [kind |-> "none"]
    /\ slept = <<>>
    /\ files = [d \in Dates |-> NoFile]
    /\ ylast = YLastNone
    /\ cfile = Absent
    /\ backups = {}
    /\ manager = FALSE
    /\ slast = SLastNone
    /\ tfile = NoFile
    /\ tsummarizer = FALSE
    /\ tai = [kind |-> "none"]
    /\ tout = [kind |-> "none"]
    /\ bemails = <<>>
    /\ bpc = "idle"
    /\ bi = 0
    /\ bcalls = <<>>
    /\ bsummaries = <<>>
    /\ fids = <<>>
    /\ fpc = "idle"
    /\ fi = 0
    /\ fcalls = <<>>
    /\ femails = <<>>
    /\ fout = "none"
    /\ pargs = <<>>
    /\ ppc = "idle"
    /\ pquery = [kind |-> "none"]
    /\ plog = [error |-> "none"]
    /\ ptranscript = "none"
    /\ pexit = {}
    /\ dstr = <<>>
    /\ dlast = [operator |-> "none"]
    /\ lfile = NoFile
    /\ lstart = NoFile
    /\ lbatch = <<>>
    /\ lpc = <<>>
    /\ lread = <<>>
    /\ aprovider = "none"
    /\ aresponses = <<>>
    /\ gmax = 0
    /\ gpc = "idle"
    /\ gouter = 0
    /\ ginner = 0
    /\ gn = 0
    /\ gtoken = None
    /\ gcalls = <<>>
    /\ gtotal = 0
    /\ gallretry = TRUE
    /\ gout = [kind |-> "none"]
    /\ kfile \in TokenKinds
    /\ modes \in [FileKinds -> {NoMode, OwnerOnly, PermBits \ {"gw", "ow"}}]
    /\ \A k \in FileKinds \ {"token"} : modes[k] = NoMode
    /\ (kfile = "absent") <=> (modes["token"] = NoMode)
    /\ kstart = [kind |-> kfile, mode |-> modes["token"]]
    /\ umask \in Umasks
    /\ wlast = [kind |-> "none"]
    /\ kargs \in [headless : BOOLEAN, credentials_file : BOOLEAN]
    /\ kpc = "load"
    /\ kcreds = NoCreds
    /\ ksteps = {}
    /\ kout = [exc |-> "none"]

SpecAuth == AuthInit /\ [][AuthNext]_vars

(***************************************************************************)
(* Properties                                                              *)
(***************************************************************************)

AllRetryable(cs) ==
    \A i \in 1..Len(cs) : cs[i].kind = "raise" /\ cs[i].exc = "RetryableError"

\* C1: an operation that raises RetryableError on every attempt is called
\* exactly max_attempts times and then that error is raised to the caller;
\* an operation that succeeds on the max_attempts-th attempt makes the
\* wrapper return that attempt's result.
C1_RetryExhaustion ==
    /\ (rpc = "running" /\ AllRetryable(calls)) => Len(calls) < rcfg.max_attempts
    /\ (rpc = "raised" /\ AllRetryable(calls)) =>
          /\ Len(calls) = rcfg.max_attempts
          /\ rout = calls[Len(calls)]
    /\ (rpc # "running" /\ calls # <<>> /\ calls[Len(calls)].kind = "ok"
            /\ Len(calls) = rcfg.max_attempts) =>
          /\ rpc = "returned"
          /\ rout = calls[Len(calls)]
    /\ Len(calls) <= rcfg.max_attempts

C1_Witness ==
    /\ rpc = "raised"
    /\ rcfg.max_attempts = MaxAttemptsBound
    /\ Len(calls) = rcfg.max_attempts
    /\ AllRetryable(calls)

ExistingFiles == {d \in Dates : files[d] # NoFile}

\* C2: a write for a date that already has a record keeps the stored emails,
\* in order, in front of the new batch and sets email_count to the total
\* (a 3-email write onto a 2-email record gives 5 emails, email_count 5).
C2_AppendExtends ==
    [][\A d \in Dates :
          (ylast'.op = "write" /\ ylast'.date = d /\ ylast'.ret.kind = "path"
              /\ files[d] # NoFile) =>
             /\ Len(files'[d]["emails"]) = Len(files[d]["emails"]) + ylast'.n
             /\ SubSeq(files'[d]["emails"], 1, Len(files[d]["emails"])) = files[d]["emails"]
             /\ files'[d]["email_count"] = files[d]["email_count"] + ylast'.n
             /\ ((files[d]["email_count"] = 2 /\ ylast'.n = 3) =>
                    (files'[d]["email_count"] = 5 /\ Len(files'[d]["emails"]) = 5))]_vars

C2_Witness ==
    /\ ylast.op = "write"
    /\ ylast.prev = 2
    /\ ylast.n = 3
    /\ ylast.date \in Dates
    /\ files[ylast.date] # NoFile
    /\ files[ylast.date]["email_count"] = 5
    /\ Len(files[ylast.date]["emails"]) = 5

\* C3: every stored record has email_count equal to the length of its
\* emails list.
C3_CountMatchesEmails ==
    \A d \in Dates :
        files[d] # NoFile => files[d]["email_count"] = Len(files[d]["emails"])

C3_Witness ==
    \E d \in Dates :
        /\ files[d] # NoFile
        /\ Has(files[d], "last_updated")
        /\ Has(files[d], "status")
        /\ files[d]["email_count"] = 3

\* C4: create-empty on a date whose record has email_count > 0 changes no
\* file and returns the path of that record.
C4_CreateEmptyKeepsEmails ==
    [][\A d \in Dates :
          (ylast'.op = "create_empty" /\ ylast'.date = d /\ files[d] # NoFile
              /\ files[d]["email_count"] > 0) =>
             /\ files' = files
             /\ ylast'.ret = PathOf(d)]_vars

C4_Witness ==
    /\ ylast.op = "create_empty"
    /\ ylast.prev > 0
    /\ ylast.date \in Dates
    /\ files[ylast.date] # NoFile
    /\ Len(files[ylast.date]["emails"]) = ylast.prev

\* C5: a create-empty call that directly follows a create-empty call for the
\* same date, the first one having found no record or an empty one, leaves a
\* record with email_count 0 and no emails, and the same set of files.
C5_CreateEmptyTwice ==
    [][\A d \in Dates :
          (ylast.op = "create_empty" /\ ylast.date = d /\ ylast.prev <= 0
              /\ ylast'.op = "create_empty" /\ ylast'.date = d /\ ylast'.repeat) =>
             /\ files'[d] # NoFile
             /\ files'[d]["email_count"] = 0
             /\ files'[d]["emails"] = <<>>
             /\ ExistingFiles' = ExistingFiles]_vars

C5_Witness ==
    /\ ylast.op = "create_empty"
    /\ ylast.prev = 0
    /\ ylast.repeat
    /\ ylast.date \in Dates
    /\ files[ylast.date] # NoFile
    /\ files[ylast.date]["email_count"] = 0
    /\ Cardinality(ExistingFiles) = 1

\* C6: a stored record carries a status field only while it is empty; once
\* real emails are written onto a record created by an empty run, the record
\* has email_count > 0 and no status field.
C6_StatusOnlyWhenEmpty ==
    \A d \in Dates :
        (files[d] # NoFile /\ Has(files[d], "status")) => files[d]["email_count"] = 0


IsLegacy(file) == file.kind = "json" /\ ~Has(file.data, "version")

\* C8: opening a legacy (no-version) file whose entries are configurations
\* (each has a query) leaves a version "1.0" file with the same names, every
\* field each configuration had keeping its value.
C8_MigrationPreserves ==
    [][(slast'.op = "open" /\ IsLegacy(cfile)
          /\ \A n \in DOMAIN LegacyEntriesOf(cfile.data) : Has(LegacyEntriesOf(cfile.data)[n], "query")) =>
        LET old == LegacyEntriesOf(cfile.data)
        IN  /\ slast'.ret = "ok"
            /\ cfile'.kind = "json"
            /\ cfile'.data["version"] = "1.0"
            /\ DOMAIN cfile'.data["configs"] = DOMAIN old
            /\ \A n \in DOMAIN old : \A fld \in DOMAIN old[n] :
                  /\ Has(cfile'.data["configs"][n], fld)
                  /\ cfile'.data["configs"][n][fld] = old[n][fld]]_vars

C8_Witness ==
    /\ slast.op = "open"
    /\ slast.found = "none"
    /\ slast.ret = "ok"
    /\ "backup" \in backups
    /\ cfile.kind = "json"
    /\ cfile.data["version"] = "1.0"
    /\ DOMAIN cfile.data["configs"] = Names
    /\ \A n \in Names : Has(cfile.data["configs"][n], "query")

\* C9: after a legacy (no-version) file has been opened, every configuration
\* in the stored file has usage_count, last_used and created_at (the missing
\* ones defaulted to 0, null and the migration time).
C9_MigrationDefaults ==
    (slast.op = "open" /\ slast.found = "none" /\ slast.ret = "ok") =>
        \A n \in DOMAIN cfile.data["configs"] :
            /\ Has(cfile.data["configs"][n], "usage_count")
            /\ Has(cfile.data["configs"][n], "last_used")
            /\ Has(cfile.data["configs"][n], "created_at")

NameStored(file, name) ==
    /\ file.kind = "json"
    /\ Has(file.data, "configs")
    /\ name \in DOMAIN file.data["configs"]

\* C10 as stated: a save under a name that is already stored raises the
\* name-collision error and leaves the file unchanged.
C10_DuplicateAlwaysCollision ==
    [][(slast'.op = "save" /\ NameStored(cfile, slast'.name)) =>
          /\ slast'.ret = "InvalidConfigurationError"
          /\ cfile' = cfile]_vars

\* C10 amended: a save under a name that is already stored leaves the file
\* unchanged and raises an error: the name-collision error when the query
\* is valid, the query-validation error when it is not.
C10_DuplicateRejected ==
    [][(slast'.op = "save" /\ NameStored(cfile, slast'.name)) =>
          /\ slast'.ret \in {"InvalidConfigurationError", "QueryValidationError"}
          /\ cfile' = cfile
          /\ backups' = backups]_vars

C10_Witness ==
    /\ slast.op = "save"
    /\ slast.ret = "InvalidConfigurationError"
    /\ slast.prev = <<"save", "ok">>
    /\ NameStored(cfile, slast.name)
    /\ cfile.data["configs"][slast.name]["description"] = "new"


\* an exception the wrapper must not retry: one of non_retryable_exceptions,
\* or one of no classified type
IsFatal(o) == o.kind = "raise" /\ o.exc \notin (retryable_exceptions \ non_retryable_exceptions)

\* C16: a NonRetryableError, or an exception of an unclassified type, raised
\* by any attempt ends the wrapper: it is the last call made, it is what the
\* wrapper raises, and no delay follows it.
C16_FatalPropagatesAtOnce ==
    \A i \in 1..Len(calls) :
        IsFatal(calls[i]) =>
            /\ i = Len(calls)
            /\ rpc = "raised"
            /\ rout = calls[i]
            /\ Len(slept) = i - 1

C16_Witness ==
    /\ rpc = "raised"
    /\ rcfg.max_attempts = MaxAttemptsBound
    /\ Len(calls) = 2
    /\ calls[2].exc = "ValueError"
    /\ Len(slept) = 1

WriterProduced(data) ==
    /\ data # NoFile
    /\ \A i \in 1..Len(_load_email_summaries(data)) :
        /\ _load_email_summaries(data)[i].priority \in Priorities
        /\ _load_email_summaries(data)[i].key_points # NoneList

\* C12: for a day record with 0, 1 or 5 emails, generate_transcript
\* returns a non-empty string in every case, whatever the AI path does.
C12_TranscriptNeverEmpty ==
    (/\ tout.kind # "none"
     /\ IsValidDate(tout.date)
     /\ WriterProduced(tfile)
     /\ Len(_load_email_summaries(tfile)) \in {0, 1, MaxEmails})
        => (tout.kind = "return" /\ tout.text # <<>>)

\* C13: the deterministic-template transcript of a day with 10 action
\* items in all has exactly 5 rendered action-item lines.
C13_FiveActionLines ==
    (/\ tout.kind = "return"
     /\ tout.via = "template"
     /\ Len(AllActionItems(_load_email_summaries(tfile))) = 10)
        => Cardinality({i \in 1..Len(tout.text) : tout.text[i].part = "item"}) = 5

\* C14: batch summarization returns exactly one summary per input email, in
\* input order; an email whose AI call failed (retry exhaustion included)
\* gets its fallback summary and the loop goes on, so the batch never
\* aborts.
C14_OneSummaryPerEmail ==
    /\ bpc # "raised"
    /\ Len(bsummaries) = bi
    /\ Len(bcalls) = bi
    /\ bi <= Len(bemails)
    /\ bpc = "returned" => Len(bsummaries) = Len(bemails)
    /\ \A i \in 1..Len(bsummaries) :
        /\ bsummaries[i].subject = bemails[i].subject
        /\ bcalls[i].kind = "raise" => bsummaries[i] = _create_fallback_summary(bemails[i])
        /\ bcalls[i].kind = "return" => bsummaries[i] = AISummary(bemails[i], bcalls[i].parsed)

C14_Witness ==
    /\ bpc = "returned"
    /\ Len(bemails) = MaxBatchEmails
    /\ bcalls[1] = [kind |-> "raise", exc |-> "RetryableError"]
    /\ bcalls[2].kind = "return"
    /\ bcalls[3] = [kind |-> "raise", exc |-> "ValueError"]
    /\ bemails[1] # bemails[2]
    /\ bsummaries[3] = _create_fallback_summary(bemails[3])

\* the emails of the ids whose hydration returned content, in id order
RECURSIVE Hydrated(_, _)
Hydrated(ids, outcomes) ==
    IF outcomes = <<>> THEN <<>>
    ELSE (IF Head(outcomes).kind = "content" THEN <<EmailContent(Head(ids))>> ELSE <<>>)
         \o Hydrated(Tail(ids), Tail(outcomes))

\* C15: in a bulk fetch an error of get_email_content on one message is
\* caught and not propagated: the loop goes through every listed id and
\* the call returns the messages that hydrated, in the order of their ids.
C15_BadMessageSkipped ==
    /\ Len(fcalls) = fi
    /\ fi <= Len(fids)
    /\ femails = Hydrated(fids, fcalls)
    /\ fpc = "raised" => fi = 0
    /\ fpc = "returned" => fi = Len(fids)

C15_Witness ==
    /\ fpc = "returned"
    /\ fids = <<"msg1", "msg2", "msg3">>
    /\ fcalls[1].kind = "content"
    /\ fcalls[2] = [kind |-> "raise", exc |-> "RetryableError"]
    /\ fcalls[3].kind = "content"
    /\ femails = <<EmailContent("msg1"), EmailContent("msg3")>>

\* the run's --search-config is the source of the query: no usable
\* --search-query was given with it
NamesConfig == pargs.search_config # None /\ ~(pargs.search_query.given /\ pargs.search_query.text # <<>>)

\* the store built over the file holds a valid configuration of that name
Resolvable(file, name) ==
    \E now \in Times :
        /\ ~_ensure_config_file(file, now).raised
        /\ name \in DOMAIN _ensure_config_file(file, now).file.data["configs"]
        /\ from_dict_ok(_ensure_config_file(file, now).file.data["configs"][name])

\* C17: when the run names a search configuration that cannot be resolved,
\* the run is a hard failure with exit code 1; it never goes on to fetch
\* with the default or any other query.
C17_UnresolvedConfigIsFatal ==
    (/\ ppc \in {"fetch", "written", "exited"}
     /\ NamesConfig
     /\ ~Resolvable(plog.file, pargs.search_config))
        => (ppc = "exited" /\ pexit = {1} /\ pquery.kind = "none")

\* C18: once the daily record is written, a failure of the transcript
\* stage, whichever it is, leaves the exit code at 0.
C18_TranscriptFailureExitsZero ==
    (ppc = "exited" /\ ptranscript # "none") => pexit = {0}

C18_Witness ==
    /\ ppc = "exited"
    /\ ptranscript = "write_error"
    /\ pquery.kind = "saved"
    /\ pexit = {0}

\* C19: after a successful write of the token, search-configuration,
\* daily-summary or transcript file, the file written has mode 600
C19_WrittenFilesOwnerOnly ==
    (wlast.kind \in FileKinds /\ wlast.ok) => modes[wlast.kind] = OwnerOnly

\* the days of a month of the calendar
DaysInMonth(year, month) ==
    IF month = 2 THEN (IF IsLeapYear(year) THEN 29 ELSE 28)
    ELSE IF month \in {4, 6, 9, 11} THEN 30 ELSE 31

IsCalendarDate(year, month, day) ==
    /\ month \in 1..12
    /\ day \in 1..DaysInMonth(year, month)

\* C20: a value of after: or before: written YYYY-MM-DD or YYYY/MM/DD is
\* accepted exactly when it is a date of the calendar: a month outside 1-12,
\* February 30, February 29 of a non-leap year and day 31 of a 30-day month
\* are rejected in either form, February 29 of a leap year is accepted
C20_ImpossibleDatesRejected ==
    (/\ dlast.operator # "none"
     /\ MatchesDatePattern(dstr, "-") \/ MatchesDatePattern(dstr, "/"))
    => (dlast.ok <=> IsCalendarDate(ToInt(SubSeq(dstr, 1, 4)), ToInt(SubSeq(dstr, 6, 7)),
                                    ToInt(SubSeq(dstr, 9, 10))))

\* the emails of a day's file
StoredEmails(file) == IF file = NoFile THEN <<>> ELSE _load_existing_yaml(file)["emails"]

\* C21: a run that stores while the other run has not begun leaves the
\* emails that were there followed by all of its own; with both runs under
\* way the record can end without one run's emails
C21_AloneStoresAll ==
    \A p \in Writers :
        (lpc # <<>> /\ lpc[p] = "done" /\ \A q \in Writers \ {p} : lpc[q] = "start")
        => StoredEmails(lfile) = StoredEmails(lstart) \o ToDicts(lbatch[p])

\* both runs returned and the record holds what was there and the emails of
\* run 2 only
C21_Witness ==
    /\ lpc # <<>>
    /\ \A p \in Writers : lpc[p] = "done"
    /\ StoredEmails(lstart) # <<>>
    /\ StoredEmails(lfile) = StoredEmails(lstart) \o ToDicts(lbatch[2])

\* C22: the wait after a RetryableError that carries a retry_after hint is
\* that hint; the wait after one that carries none is a computed backoff
\* delay
C22_HintedDelayExact ==
    \A i \in 1..Len(slept) :
        IF calls[i].retry_after # NoHint
        THEN slept[i] = calls[i].retry_after
        ELSE slept[i] \in calculate_delay(i - 1, rcfg)

RECURSIVE SumSeq(_)
SumSeq(s) == IF s = <<>> THEN 0 ELSE s[1] + SumSeq(Tail(s))

\* the error before wait i carried a hint the wrapper uses
UsesHint(i) == calls[i].retry_after # NoHint /\ calls[i].retry_after # 0

\* C23 as stated: the waits of one wrapped call add up to at most
\* max_attempts x max_delay
C23_TotalWaitBounded ==
    SumSeq(slept) <= rcfg.max_attempts * rcfg.max_delay

\* C23 amended: there are at most max_attempts - 1 waits; a wait that uses a
\* hint is the hint, uncapped, and every other wait is at most max_delay
\* plus its tenth of jitter
C23_WaitBoundedByHintsAndCap ==
    /\ Len(slept) <= rcfg.max_attempts - 1
    /\ SumSeq(slept) <=
          SumSeq([i \in 1..Len(slept) |->
                    IF UsesHint(i) THEN calls[i].retry_after
                    ELSE rcfg.max_delay + rcfg.max_delay \div 10])

C23_Witness ==
    /\ rpc = "raised"
    /\ Len(slept) = 2
    /\ ~UsesHint(1)
    /\ UsesHint(2)
    /\ rcfg.jitter
    /\ slept[1] > rcfg.max_delay
    /\ SumSeq(slept) > rcfg.max_attempts * rcfg.max_delay

\* C24: a response with an empty or blank body ends the call: the provider
\* is not asked again, no wait follows, and the call raises
\* NonRetryableError
C24_EmptyResponseNotRetried ==
    \A i \in 1..Len(aresponses) :
        (aresponses[i].kind = "response" /\ StripText(aresponses[i].text) = "")
        => /\ i = Len(aresponses)
           /\ Len(slept) = i - 1
           /\ rpc = "raised"
           /\ rout.exc = "NonRetryableError"

\* C25: while every list call of a bulk fetch has failed with a retryable
\* error, at most 3 list calls have been made
C25_ThreeListAttempts ==
    (gpc # "idle" /\ gallretry) => gtotal <= 3

\* C26: each list call asks for min(500, ids still wanted) and, after the
\* first, carries the token the call before returned; the listing goes on
\* to another call only with a token and with ids still wanted, and returns
\* when a page has no token or the total is reached, with no more ids than
\* the total
C26_PagedListing ==
    /\ \A i \in 1..Len(gcalls) :
          /\ gcalls[i].maxResults = Min(GmailPageMax, gmax - gcalls[i].so_far)
          /\ gcalls[i].maxResults >= 1
          /\ gcalls[i].pageToken = (IF i = 1 THEN None ELSE gcalls[i - 1].nextPageToken)
          /\ i > 1 => /\ gcalls[i - 1].nextPageToken # None
                      /\ gcalls[i].so_far = gcalls[i - 1].so_far + gcalls[i - 1].got
                      /\ gcalls[i].so_far < gmax
    /\ (gpc = "returned") =>
          /\ gout.n <= gmax
          /\ gout.n = gn
          /\ gcalls[Len(gcalls)].nextPageToken = None \/ gn >= gmax
    /\ (gpc = "listing" /\ gcalls # <<>>) =>
          /\ gcalls[Len(gcalls)].nextPageToken # None
          /\ gn < gmax

C26_Witness ==
    /\ gpc = "returned"
    /\ gmax = 1001
    /\ Len(gcalls) = 3
    /\ gcalls[3].maxResults = 1
    /\ gcalls[2].pageToken = "p1"
    /\ gout.n = 1001

\* C27 as stated: when the token file holds a valid credential, neither
\* refresh nor authorization runs, and the credential is returned after the
\* token was saved with mode 600
C27_ValidCredentialPersisted ==
    (kstart.kind = "valid" /\ kpc = "returned")
    => /\ ksteps = {"persist"}
       /\ modes["token"] = OwnerOnly

\* C27 amended: when the token file holds a valid credential, it is
\* returned as loaded; refresh, authorization and the saving of the token
\* do not run, and the token file and its mode are left as they were
C27_ValidCredentialReturnedAsLoaded ==
    (kstart.kind = "valid" /\ kpc # "load")
    => /\ kpc \in {"check", "returned"}
       /\ ksteps = {}
       /\ kcreds = TokenCredentials["valid"]
       /\ kfile = "valid"
       /\ modes["token"] = kstart.mode
       /\ wlast.kind = "none"

C27_Witness ==
    /\ kstart.kind = "valid"
    /\ kpc = "returned"
    /\ modes["token"] # OwnerOnly

\* C28: a token file that cannot be read or deserialized is deleted and
\* authentication goes on with no credential, to the authorization flow;
\* it does not end with the failure of the load
C28_CorruptTokenDiscarded ==
    (kstart.kind \in TokenFailures /\ kpc # "load")
    => /\ kfile \in {"absent", "valid"}
       /\ "refresh" \notin ksteps
       /\ kpc = "raised" => kout.step # "load"

\* C29: without headless, an authorization failure that says "could not
\* locate runnable browser" is raised as the authentication error that
\* tells the user to use the headless flag
C29_NoBrowserAdvisesHeadless ==
    (/\ kpc = "raised"
     /\ kout.step = "authorize"
     /\ kout.cause = "could not locate runnable browser"
     /\ ~kargs.headless)
    => /\ kout.exc = "GmailAuthError"
       /\ kout.advice = "use --headless"

\* the action items a transcript names, in the order it names them
RenderedItems(text) ==
    LET lines == SelectSeq(text, LAMBDA p : p.part \in {"item", "single_item"})
    IN  [i \in 1..Len(lines) |-> lines[i].text]

\* what is rendered of a list of collected items: the only one, or of the
\* first five those that do not start with a dash
RenderedOf(items) ==
    IF Len(items) = 1 THEN items
    ELSE SelectSeq(SubSeq(items, 1, Min(5, Len(items))), LAMBDA x : ~StartsWithDash(x))

RECURSIVE InputOrderItems(_)
InputOrderItems(emails) ==
    IF emails = <<>> THEN <<>>
    ELSE Head(emails).action_items \o InputOrderItems(Tail(emails))

BucketOrderItems(emails) ==
    InputOrderItems(Bucket(emails, "high")) \o InputOrderItems(Bucket(emails, "medium"))
        \o InputOrderItems(Bucket(emails, "low"))

\* C30 as stated: the deterministic-template transcript collects the action
\* items in bucket-emission order (high, middle, low), so the rendered
\* items are taken from the first 5 in that order
C30_ItemsInBucketOrder ==
    (tout.kind = "return" /\ tout.via = "template")
        => RenderedItems(tout.text) = RenderedOf(BucketOrderItems(_load_email_summaries(tfile)))

\* C30 amended: the deterministic-template transcript collects the action
\* items in the order of the emails of the day record, so the rendered
\* items are taken from the first 5 in that order
C30_ItemsInInputOrder ==
    (tout.kind = "return" /\ tout.via = "template")
        => RenderedItems(tout.text) = RenderedOf(InputOrderItems(_load_email_summaries(tfile)))

C30_Witness ==
    /\ tout.kind = "return"
    /\ tout.via = "template"
    /\ RenderedOf(BucketOrderItems(_load_email_summaries(tfile)))
           # RenderedOf(InputOrderItems(_load_email_summaries(tfile)))
    /\ Len(RenderedItems(tout.text)) = 5

====
